---- MODULE Spec2Model ----
(***************************************************************************)
(* Model of the crab_cash transaction engine: the fixed-point Amount       *)
(* (src/engine/amount.rs), the per-client Account state machine            *)
(* (src/engine/account.rs) and the Ledger that routes records to accounts  *)
(* (src/engine/ledger.rs).                                                 *)
(***************************************************************************)
EXTENDS Integers, Sequences, FiniteSets, TLC

(***************************************************************************)
(* Bounds of the model.                                                    *)
(***************************************************************************)
\* Width of the signed integer behind Amount. The source uses an i64; the
\* model keeps the width as a parameter so that the checked arithmetic can
\* be explored with the model checker's integers.
StoreBits == 24
\* Client ids are 1..MaxClient, transaction ids are 1..MaxTx.
MaxClient == 2
MaxTx == 2
\* Amount texts are tried up to this length, over a small alphabet, and
\* Amount values within this distance of the ends and the middle of the range.
MaxTextLen == 4
ValueSpan == 1
\* Interleavings of the records of the clients are tried up to this many
\* records in all.
MaxFeed == 4

(***************************************************************************)
(* Amount (src/engine/amount.rs)                                           *)
(***************************************************************************)
I64_MAX == 2^(StoreBits - 1) - 1
I64_MIN == -I64_MAX - 1

\* The scale of the fixed-point representation: 4 fractional digits.
SCALE == 10000
FRAC_DIGITS == 4

Amount_new == 0

AmountOk(v) == [ok |-> TRUE, store |-> v]
AmountErr(e) == [ok |-> FALSE, err |-> e]

\* An add that wraps around the range as i64::wrapping_add does.
Amount_add_wrapping(a, b) ==
    LET sum == a + b
        width == I64_MAX - I64_MIN + 1
    IN AmountOk(IF sum > I64_MAX THEN sum - width
                ELSE IF sum < I64_MIN THEN sum + width
                ELSE sum)

\* Amount::add: i64::checked_add, None becomes AmountError::Overflow.
Amount_add(a, b) ==
    IF a + b > I64_MAX \/ a + b < I64_MIN
    THEN AmountErr([kind |-> "Overflow"])
    ELSE AmountOk(a + b)

\* Amount::sub: i64::checked_sub, None becomes AmountError::Underflow.
Amount_sub(a, b) ==
    IF a - b > I64_MAX \/ a - b < I64_MIN
    THEN AmountErr([kind |-> "Underflow"])
    ELSE AmountOk(a - b)

\* Texts are sequences of one-character strings.
DigitChars == <<"0", "1", "2", "3", "4", "5", "6", "7", "8", "9">>
IsAsciiDigit(c) == \E i \in 1..10 : DigitChars[i] = c
DigitVal(c) == (CHOOSE i \in 1..10 : DigitChars[i] = c) - 1
\* The characters str::trim removes: those char::is_whitespace accepts, the
\* Unicode White_Space set.  A character up to U+00FF is the one-character
\* string itself; a character beyond U+00FF, which a string literal cannot
\* hold, is written as the name of its code point ("U+2000").
WhiteSpace ==
    {"\t", "\n", "", "\f", "\r",       \* U+0009 .. U+000D
     " ",                               \* U+0020
     "", " ",                          \* U+0085, U+00A0
     "U+1680",
     "U+2000", "U+2001", "U+2002", "U+2003", "U+2004", "U+2005",
     "U+2006", "U+2007", "U+2008", "U+2009", "U+200A",
     "U+2028", "U+2029", "U+202F", "U+205F", "U+3000"}
IsWhitespace(c) == c \in WhiteSpace

RECURSIVE TrimStart(_)
TrimStart(s) ==
    IF s # <<>> /\ IsWhitespace(Head(s)) THEN TrimStart(Tail(s)) ELSE s

RECURSIVE TrimEnd(_)
TrimEnd(s) ==
    IF s # <<>> /\ IsWhitespace(s[Len(s)])
    THEN TrimEnd(SubSeq(s, 1, Len(s) - 1))
    ELSE s

\* str::trim
Trim(s) == TrimEnd(TrimStart(s))

\* The accumulation loop of str::parse::<i64>: for a positive text each
\* digit is added after a checked multiplication by 10, for a negative one
\* it is subtracted, so that the minimum value is parseable.
RECURSIVE AccumulateDigits(_, _, _)
AccumulateDigits(ds, acc, neg) ==
    IF ds = <<>> THEN [ok |-> TRUE, val |-> acc]
    ELSE IF ~IsAsciiDigit(Head(ds)) THEN [ok |-> FALSE, val |-> 0]
    ELSE LET d == DigitVal(Head(ds)) IN
         IF neg
         THEN IF acc < (I64_MIN + d) \div 10 + (IF (I64_MIN + d) % 10 = 0 THEN 0 ELSE 1)
              THEN [ok |-> FALSE, val |-> 0]
              ELSE AccumulateDigits(Tail(ds), acc * 10 - d, neg)
         ELSE IF acc > (I64_MAX - d) \div 10
              THEN [ok |-> FALSE, val |-> 0]
              ELSE AccumulateDigits(Tail(ds), acc * 10 + d, neg)

\* A parse that takes a sign without digits for zero.
parse_i64_sign_only(s) ==
    IF s = <<>> THEN [ok |-> FALSE, val |-> 0]
    ELSE LET signed == Head(s) \in {"+", "-"}
             ds == IF signed THEN Tail(s) ELSE s
         IN AccumulateDigits(ds, 0, Head(s) = "-")

\* str::parse::<i64>: an optional sign followed by at least one digit.
parse_i64(s) ==
    IF s = <<>> THEN [ok |-> FALSE, val |-> 0]
    ELSE LET signed == Head(s) \in {"+", "-"}
             ds == IF signed THEN Tail(s) ELSE s
         IN IF ds = <<>> THEN [ok |-> FALSE, val |-> 0]
            ELSE AccumulateDigits(ds, 0, Head(s) = "-")

\* A scaling that stops at the end of the range as i64::saturating_mul does.
checked_mul_scale_saturating(v) ==
    IF v > I64_MAX \div SCALE THEN [ok |-> TRUE, val |-> I64_MAX]
    ELSE IF -v > I64_MAX \div SCALE THEN [ok |-> TRUE, val |-> I64_MIN]
    ELSE [ok |-> TRUE, val |-> v * SCALE]

\* i64::checked_mul(10_000)
checked_mul_scale(v) ==
    IF v > I64_MAX \div SCALE \/ -v > (I64_MAX \div SCALE) + (IF (I64_MAX % SCALE) = SCALE - 1 THEN 1 ELSE 0)
    THEN [ok |-> FALSE, val |-> 0]
    ELSE [ok |-> TRUE, val |-> v * SCALE]

DotPositions(s) == {i \in 1..Len(s) : s[i] = "."}

\* The "ensure 4 digits" step: truncate to 4 characters or pad with '0'.
RECURSIVE PadRight(_)
PadRight(dec) ==
    IF Len(dec) < FRAC_DIGITS THEN PadRight(Append(dec, "0")) ELSE dec

\* The fractional digits padded but never truncated.
FourDigits_untruncated(dec) == PadRight(dec)

FourDigits(dec) ==
    IF Len(dec) > FRAC_DIGITS THEN SubSeq(dec, 1, FRAC_DIGITS) ELSE PadRight(dec)

\* impl FromStr for Amount
Amount_from_str(text) ==
    LET s == Trim(text)
        dots == DotPositions(s)
        ParseError == AmountErr([kind |-> "Parse", text |-> s])
    IN
    IF s = <<>> THEN ParseError
    ELSE IF Cardinality(dots) > 1 THEN ParseError
    ELSE
      LET firstDot == IF dots = {} THEN Len(s) + 1 ELSE CHOOSE i \in dots : TRUE
          left_part == SubSeq(s, 1, firstDot - 1)
          left_str == IF left_part = <<>> THEN <<"0">> ELSE left_part
      IN
      IF dots = {}
      THEN LET parsed == parse_i64(left_str) IN
           IF ~parsed.ok THEN ParseError
           ELSE LET scaled == checked_mul_scale(parsed.val) IN
                IF scaled.ok THEN AmountOk(scaled.val)
                ELSE AmountErr([kind |-> "Overflow"])
      ELSE LET raw == SubSeq(s, firstDot + 1, Len(s))
               dec_str == IF raw = <<>> THEN <<"0", "0", "0", "0">> ELSE raw
           IN
           IF \E i \in 1..Len(dec_str) : ~IsAsciiDigit(dec_str[i])
           THEN ParseError
           ELSE LET total == parse_i64(left_str \o FourDigits(dec_str)) IN
                IF total.ok THEN AmountOk(total.val) ELSE ParseError

\* Decimal digits of a natural number ("{}" of a non-negative integer).
RECURSIVE NatToText(_)
NatToText(n) ==
    IF n < 10 THEN <<DigitChars[n + 1]>>
    ELSE Append(NatToText(n \div 10), DigitChars[(n % 10) + 1])

\* "{}" of a signed integer.
IntToText(n) == IF n < 0 THEN <<"-">> \o NatToText(-n) ELSE NatToText(n)

RECURSIVE ZeroPad(_, _)
ZeroPad(t, width) == IF Len(t) < width THEN ZeroPad(<<"0">> \o t, width) ELSE t

\* "{:04}" of a signed integer: the sign counts in the width.
PadLeft(n) ==
    IF n < 0
    THEN <<"-">> \o ZeroPad(NatToText(-n), FRAC_DIGITS - 1)
    ELSE ZeroPad(NatToText(n), FRAC_DIGITS)

\* i64::abs panics on the minimum value when overflow checks are compiled
\* in; without them it wraps and returns the minimum value itself.
AbsOverflows(v) == v = I64_MIN
wrapping_abs(v) == IF v = I64_MIN THEN I64_MIN ELSE IF v < 0 THEN -v ELSE v

\* What value.abs() and the formatting after it can do in impl Display: a
\* build with overflow checks panics on the minimum value, a build without
\* them goes on with the wrapped value.
DisplayOutcomes(v) ==
    IF AbsOverflows(v)
    THEN {"panic", "wrapped"}
    ELSE {"formatted"}

\* Rust's `/` and `%` on i64: the quotient is truncated towards zero and
\* the remainder has the sign of the dividend.
TruncDiv(a, b) == IF a < 0 THEN -((-a) \div b) ELSE a \div b
TruncRem(a, b) == IF a < 0 THEN -((-a) % b) ELSE a % b

\* impl Display for Amount, as it runs when i64::abs does not panic
\* (every value but the minimum, and the minimum in a build without
\* overflow checks).
Amount_to_string(v) ==
    LET negative == v < 0
        abs_val == wrapping_abs(v)
        left_part == TruncDiv(abs_val, SCALE)
        decimal_part == TruncRem(abs_val, SCALE)
        body == IntToText(left_part) \o <<".">> \o PadLeft(decimal_part)
    IN IF negative THEN <<"-">> \o body ELSE body

(***************************************************************************)
(* Account (src/engine/account.rs)                                         *)
(***************************************************************************)
\* AccountOperationError variants carrying the offending transaction id.
AccountError(kind, tx_id) == [kind |-> kind, tx |-> tx_id]
\* AccountOperationError::InvalidAmountOperation(#[from] AmountError)
InvalidAmountOperation(amount_err) ==
    [kind |-> "InvalidAmountOperation", cause |-> amount_err]

OkResult == [kind |-> "Ok"]

\* An Account operation returns its Result and leaves the account `acc`.
Returned(result, acc) == [res |-> result, acc |-> acc]

AccountTx(amount, typ, is_disputed) ==
    [amount |-> amount, typ |-> typ, is_disputed |-> is_disputed]

\* HashMap::insert
MapInsert(m, k, v) == [x \in DOMAIN m \cup {k} |-> IF x = k THEN v ELSE m[x]]

EmptyMap == <<>>

\* Account::new
Account_new(client_id) ==
    [id |-> client_id,
     amount_available |-> Amount_new,
     amount_held |-> Amount_new,
     is_locked |-> FALSE,
     tx |-> EmptyMap]

\* deposit without the test for a record already stored under the id.
deposit_overwrites(self, tx_id, tx_amount) ==
    IF self.is_locked
    THEN Returned(AccountError("AccountLocked", tx_id), self)
    ELSE LET sum == Amount_add(self.amount_available, tx_amount) IN
         IF ~sum.ok
         THEN Returned(InvalidAmountOperation(sum.err), self)
         ELSE Returned(OkResult,
                       [self EXCEPT
                          !.amount_available = sum.store,
                          !.tx = MapInsert(self.tx, tx_id,
                                           AccountTx(tx_amount, "Deposit", FALSE))])

\* deposit with the lock test after the look-up of the id.
deposit_lock_checked_late(self, tx_id, tx_amount) ==
    IF tx_id \in DOMAIN self.tx
    THEN Returned(AccountError("TxAlreadyExist", tx_id), self)
    ELSE IF self.is_locked
    THEN Returned(AccountError("AccountLocked", tx_id), self)
    ELSE LET sum == Amount_add(self.amount_available, tx_amount) IN
         IF ~sum.ok
         THEN Returned(InvalidAmountOperation(sum.err), self)
         ELSE Returned(OkResult,
                       [self EXCEPT
                          !.amount_available = sum.store,
                          !.tx = MapInsert(self.tx, tx_id,
                                           AccountTx(tx_amount, "Deposit", FALSE))])

\* Account::deposit
deposit(self, tx_id, tx_amount) ==
    IF self.is_locked
    THEN Returned(AccountError("AccountLocked", tx_id), self)
    ELSE IF tx_id \notin DOMAIN self.tx
    THEN LET sum == Amount_add(self.amount_available, tx_amount) IN
         IF ~sum.ok
         THEN Returned(InvalidAmountOperation(sum.err), self)
         ELSE Returned(OkResult,
                       [self EXCEPT
                          !.amount_available = sum.store,
                          !.tx = MapInsert(self.tx, tx_id,
                                           AccountTx(tx_amount, "Deposit", FALSE))])
    ELSE Returned(AccountError("TxAlreadyExist", tx_id), self)

\* withdraw that refuses an amount equal to the available funds.
withdraw_strict(self, tx_id, tx_amount) ==
    IF self.is_locked
    THEN Returned(AccountError("AccountLocked", tx_id), self)
    ELSE IF tx_id \notin DOMAIN self.tx
    THEN IF self.amount_available > tx_amount
         THEN LET diff == Amount_sub(self.amount_available, tx_amount) IN
              IF ~diff.ok
              THEN Returned(InvalidAmountOperation(diff.err), self)
              ELSE Returned(OkResult,
                            [self EXCEPT
                               !.amount_available = diff.store,
                               !.tx = MapInsert(self.tx, tx_id,
                                                AccountTx(tx_amount, "Withdrawal", FALSE))])
         ELSE Returned(AccountError("WithdrawalLimitExceeded", tx_id), self)
    ELSE Returned(AccountError("TxAlreadyExist", tx_id), self)

\* A withdraw that takes the funds without storing a record.
withdraw_unrecorded(self, tx_id, tx_amount) ==
    IF self.is_locked
    THEN Returned(AccountError("AccountLocked", tx_id), self)
    ELSE IF tx_id \notin DOMAIN self.tx
    THEN IF self.amount_available >= tx_amount
         THEN LET diff == Amount_sub(self.amount_available, tx_amount) IN
              IF ~diff.ok
              THEN Returned(InvalidAmountOperation(diff.err), self)
              ELSE Returned(OkResult,
                            [self EXCEPT !.amount_available = diff.store])
         ELSE Returned(AccountError("WithdrawalLimitExceeded", tx_id), self)
    ELSE Returned(AccountError("TxAlreadyExist", tx_id), self)

\* Account::withdraw
withdraw(self, tx_id, tx_amount) ==
    IF self.is_locked
    THEN Returned(AccountError("AccountLocked", tx_id), self)
    ELSE IF tx_id \notin DOMAIN self.tx
    THEN IF self.amount_available >= tx_amount
         THEN LET diff == Amount_sub(self.amount_available, tx_amount) IN
              IF ~diff.ok
              THEN Returned(InvalidAmountOperation(diff.err), self)
              ELSE Returned(OkResult,
                            [self EXCEPT
                               !.amount_available = diff.store,
                               !.tx = MapInsert(self.tx, tx_id,
                                                AccountTx(tx_amount, "Withdrawal", FALSE))])
         ELSE Returned(AccountError("WithdrawalLimitExceeded", tx_id), self)
    ELSE Returned(AccountError("TxAlreadyExist", tx_id), self)

\* dispute without the test of the record's disputed flag.
dispute_repeatable(self, tx_id) ==
    IF self.is_locked
    THEN Returned(AccountError("AccountLocked", tx_id), self)
    ELSE IF tx_id \in DOMAIN self.tx
    THEN LET tx == self.tx[tx_id] IN
         IF tx.typ = "Deposit"
         THEN LET new_available == Amount_sub(self.amount_available, tx.amount) IN
              IF ~new_available.ok
              THEN Returned(InvalidAmountOperation(new_available.err), self)
              ELSE LET new_held == Amount_add(self.amount_held, tx.amount) IN
                   IF ~new_held.ok
                   THEN Returned(InvalidAmountOperation(new_held.err), self)
                   ELSE Returned(OkResult,
                                 [self EXCEPT
                                    !.amount_available = new_available.store,
                                    !.amount_held = new_held.store,
                                    !.tx[tx_id].is_disputed = TRUE])
         ELSE Returned(AccountError("InvalidWithdrawalDispute", tx_id), self)
    ELSE Returned(AccountError("TxUnknown", tx_id), self)

\* dispute that opens a dispute of an id the account has no record of, on
\* an empty Deposit record it stores for it.
dispute_unknown_accepted(self, tx_id) ==
    IF self.is_locked
    THEN Returned(AccountError("AccountLocked", tx_id), self)
    ELSE IF tx_id \in DOMAIN self.tx
    THEN LET tx == self.tx[tx_id] IN
         IF tx.is_disputed
         THEN Returned(AccountError("TxAlreadyDisputed", tx_id), self)
         ELSE IF tx.typ = "Deposit"
         THEN LET new_available == Amount_sub(self.amount_available, tx.amount) IN
              IF ~new_available.ok
              THEN Returned(InvalidAmountOperation(new_available.err), self)
              ELSE LET new_held == Amount_add(self.amount_held, tx.amount) IN
                   IF ~new_held.ok
                   THEN Returned(InvalidAmountOperation(new_held.err), self)
                   ELSE Returned(OkResult,
                                 [self EXCEPT
                                    !.amount_available = new_available.store,
                                    !.amount_held = new_held.store,
                                    !.tx[tx_id].is_disputed = TRUE])
         ELSE Returned(AccountError("InvalidWithdrawalDispute", tx_id), self)
    ELSE Returned(OkResult,
                  [self EXCEPT
                     !.tx = MapInsert(self.tx, tx_id,
                                      AccountTx(Amount_new, "Deposit", TRUE))])

\* dispute that sets the record's flag before it looks at the record's type.
dispute_flags_first(self, tx_id) ==
    IF self.is_locked
    THEN Returned(AccountError("AccountLocked", tx_id), self)
    ELSE IF tx_id \in DOMAIN self.tx
    THEN LET tx == self.tx[tx_id] IN
         IF tx.is_disputed
         THEN Returned(AccountError("TxAlreadyDisputed", tx_id), self)
         ELSE IF tx.typ = "Deposit"
         THEN LET new_available == Amount_sub(self.amount_available, tx.amount) IN
              IF ~new_available.ok
              THEN Returned(InvalidAmountOperation(new_available.err), self)
              ELSE LET new_held == Amount_add(self.amount_held, tx.amount) IN
                   IF ~new_held.ok
                   THEN Returned(InvalidAmountOperation(new_held.err), self)
                   ELSE Returned(OkResult,
                                 [self EXCEPT
                                    !.amount_available = new_available.store,
                                    !.amount_held = new_held.store,
                                    !.tx[tx_id].is_disputed = TRUE])
         ELSE Returned(AccountError("InvalidWithdrawalDispute", tx_id),
                       [self EXCEPT !.tx[tx_id].is_disputed = TRUE])
    ELSE Returned(AccountError("TxUnknown", tx_id), self)

\* dispute that assigns amount_available before it computes amount_held.
dispute_assign_in_place(self, tx_id) ==
    IF self.is_locked
    THEN Returned(AccountError("AccountLocked", tx_id), self)
    ELSE IF tx_id \in DOMAIN self.tx
    THEN LET tx == self.tx[tx_id] IN
         IF tx.is_disputed
         THEN Returned(AccountError("TxAlreadyDisputed", tx_id), self)
         ELSE IF tx.typ = "Deposit"
         THEN LET new_available == Amount_sub(self.amount_available, tx.amount) IN
              IF ~new_available.ok
              THEN Returned(InvalidAmountOperation(new_available.err), self)
              ELSE LET new_held == Amount_add(self.amount_held, tx.amount) IN
                   IF ~new_held.ok
                   THEN Returned(InvalidAmountOperation(new_held.err),
                                 [self EXCEPT !.amount_available = new_available.store])
                   ELSE Returned(OkResult,
                                 [self EXCEPT
                                    !.amount_available = new_available.store,
                                    !.amount_held = new_held.store,
                                    !.tx[tx_id].is_disputed = TRUE])
         ELSE Returned(AccountError("InvalidWithdrawalDispute", tx_id), self)
    ELSE Returned(AccountError("TxUnknown", tx_id), self)

\* dispute that moves the funds but leaves the record's flag unset.
dispute_keeps_flag(self, tx_id) ==
    IF self.is_locked
    THEN Returned(AccountError("AccountLocked", tx_id), self)
    ELSE IF tx_id \in DOMAIN self.tx
    THEN LET tx == self.tx[tx_id] IN
         IF tx.is_disputed
         THEN Returned(AccountError("TxAlreadyDisputed", tx_id), self)
         ELSE IF tx.typ = "Deposit"
         THEN LET new_available == Amount_sub(self.amount_available, tx.amount) IN
              IF ~new_available.ok
              THEN Returned(InvalidAmountOperation(new_available.err), self)
              ELSE LET new_held == Amount_add(self.amount_held, tx.amount) IN
                   IF ~new_held.ok
                   THEN Returned(InvalidAmountOperation(new_held.err), self)
                   ELSE Returned(OkResult,
                                 [self EXCEPT
                                    !.amount_available = new_available.store,
                                    !.amount_held = new_held.store])
         ELSE Returned(AccountError("InvalidWithdrawalDispute", tx_id), self)
    ELSE Returned(AccountError("TxUnknown", tx_id), self)

\* Account::dispute. Both new balances are computed into locals before
\* either field is assigned.
dispute(self, tx_id) ==
    IF self.is_locked
    THEN Returned(AccountError("AccountLocked", tx_id), self)
    ELSE IF tx_id \in DOMAIN self.tx
    THEN LET tx == self.tx[tx_id] IN
         IF tx.is_disputed
         THEN Returned(AccountError("TxAlreadyDisputed", tx_id), self)
         ELSE IF tx.typ = "Deposit"
         THEN LET new_available == Amount_sub(self.amount_available, tx.amount) IN
              IF ~new_available.ok
              THEN Returned(InvalidAmountOperation(new_available.err), self)
              ELSE LET new_held == Amount_add(self.amount_held, tx.amount) IN
                   IF ~new_held.ok
                   THEN Returned(InvalidAmountOperation(new_held.err), self)
                   ELSE Returned(OkResult,
                                 [self EXCEPT
                                    !.amount_available = new_available.store,
                                    !.amount_held = new_held.store,
                                    !.tx[tx_id].is_disputed = TRUE])
         ELSE Returned(AccountError("InvalidWithdrawalDispute", tx_id), self)
    ELSE Returned(AccountError("TxUnknown", tx_id), self)

\* resolve that looks at the record's type before its disputed flag.
resolve_type_first(self, tx_id) ==
    IF self.is_locked
    THEN Returned(AccountError("AccountLocked", tx_id), self)
    ELSE IF tx_id \in DOMAIN self.tx
    THEN LET tx == self.tx[tx_id] IN
         IF tx.typ = "Withdrawal"
         THEN Returned(AccountError("InvalidWithdrawalDispute", tx_id), self)
         ELSE IF ~tx.is_disputed
         THEN Returned(AccountError("TxNotDisputed", tx_id), self)
         ELSE LET new_held == Amount_sub(self.amount_held, tx.amount) IN
              IF ~new_held.ok
              THEN Returned(InvalidAmountOperation(new_held.err), self)
              ELSE LET new_available == Amount_add(self.amount_available, tx.amount) IN
                   IF ~new_available.ok
                   THEN Returned(InvalidAmountOperation(new_available.err), self)
                   ELSE Returned(OkResult,
                                 [self EXCEPT
                                    !.amount_held = new_held.store,
                                    !.amount_available = new_available.store,
                                    !.tx[tx_id].is_disputed = FALSE])
    ELSE Returned(AccountError("TxUnknown", tx_id), self)

\* resolve that returns the funds and leaves the record under dispute.
resolve_keeps_flag(self, tx_id) ==
    IF self.is_locked
    THEN Returned(AccountError("AccountLocked", tx_id), self)
    ELSE IF tx_id \in DOMAIN self.tx
    THEN LET tx == self.tx[tx_id] IN
         IF ~tx.is_disputed
         THEN Returned(AccountError("TxNotDisputed", tx_id), self)
         ELSE IF tx.typ = "Deposit"
         THEN LET new_held == Amount_sub(self.amount_held, tx.amount) IN
              IF ~new_held.ok
              THEN Returned(InvalidAmountOperation(new_held.err), self)
              ELSE LET new_available == Amount_add(self.amount_available, tx.amount) IN
                   IF ~new_available.ok
                   THEN Returned(InvalidAmountOperation(new_available.err), self)
                   ELSE Returned(OkResult,
                                 [self EXCEPT
                                    !.amount_held = new_held.store,
                                    !.amount_available = new_available.store])
         ELSE Returned(AccountError("InvalidWithdrawalDispute", tx_id), self)
    ELSE Returned(AccountError("TxUnknown", tx_id), self)

\* resolve without the test of the record's disputed flag.
resolve_unflagged(self, tx_id) ==
    IF self.is_locked
    THEN Returned(AccountError("AccountLocked", tx_id), self)
    ELSE IF tx_id \in DOMAIN self.tx
    THEN LET tx == self.tx[tx_id] IN
         IF tx.typ = "Deposit"
         THEN LET new_held == Amount_sub(self.amount_held, tx.amount) IN
              IF ~new_held.ok
              THEN Returned(InvalidAmountOperation(new_held.err), self)
              ELSE LET new_available == Amount_add(self.amount_available, tx.amount) IN
                   IF ~new_available.ok
                   THEN Returned(InvalidAmountOperation(new_available.err), self)
                   ELSE Returned(OkResult,
                                 [self EXCEPT
                                    !.amount_held = new_held.store,
                                    !.amount_available = new_available.store,
                                    !.tx[tx_id].is_disputed = FALSE])
         ELSE Returned(AccountError("InvalidWithdrawalDispute", tx_id), self)
    ELSE Returned(AccountError("TxUnknown", tx_id), self)

\* A resolve that takes the amount out of held without returning it to
\* available.
resolve_drops_held(self, tx_id) ==
    IF self.is_locked
    THEN Returned(AccountError("AccountLocked", tx_id), self)
    ELSE IF tx_id \in DOMAIN self.tx
    THEN LET tx == self.tx[tx_id] IN
         IF ~tx.is_disputed
         THEN Returned(AccountError("TxNotDisputed", tx_id), self)
         ELSE IF tx.typ = "Deposit"
         THEN LET new_held == Amount_sub(self.amount_held, tx.amount) IN
              IF ~new_held.ok
              THEN Returned(InvalidAmountOperation(new_held.err), self)
              ELSE Returned(OkResult,
                            [self EXCEPT
                               !.amount_held = new_held.store,
                               !.tx[tx_id].is_disputed = FALSE])
         ELSE Returned(AccountError("InvalidWithdrawalDispute", tx_id), self)
    ELSE Returned(AccountError("TxUnknown", tx_id), self)

\* Account::resolve
resolve(self, tx_id) ==
    IF self.is_locked
    THEN Returned(AccountError("AccountLocked", tx_id), self)
    ELSE IF tx_id \in DOMAIN self.tx
    THEN LET tx == self.tx[tx_id] IN
         IF ~tx.is_disputed
         THEN Returned(AccountError("TxNotDisputed", tx_id), self)
         ELSE IF tx.typ = "Deposit"
         THEN LET new_held == Amount_sub(self.amount_held, tx.amount) IN
              IF ~new_held.ok
              THEN Returned(InvalidAmountOperation(new_held.err), self)
              ELSE LET new_available == Amount_add(self.amount_available, tx.amount) IN
                   IF ~new_available.ok
                   THEN Returned(InvalidAmountOperation(new_available.err), self)
                   ELSE Returned(OkResult,
                                 [self EXCEPT
                                    !.amount_held = new_held.store,
                                    !.amount_available = new_available.store,
                                    !.tx[tx_id].is_disputed = FALSE])
         ELSE Returned(AccountError("InvalidWithdrawalDispute", tx_id), self)
    ELSE Returned(AccountError("TxUnknown", tx_id), self)

\* chargeback that hands the held funds back to available, as resolve does.
chargeback_refunds(self, tx_id) ==
    IF self.is_locked
    THEN Returned(AccountError("AccountLocked", tx_id), self)
    ELSE IF tx_id \in DOMAIN self.tx
    THEN LET tx == self.tx[tx_id] IN
         IF ~tx.is_disputed
         THEN Returned(AccountError("TxNotDisputed", tx_id), self)
         ELSE IF tx.typ = "Deposit"
         THEN LET new_held == Amount_sub(self.amount_held, tx.amount) IN
              IF ~new_held.ok
              THEN Returned(InvalidAmountOperation(new_held.err), self)
              ELSE LET new_available == Amount_add(self.amount_available, tx.amount) IN
                   IF ~new_available.ok
                   THEN Returned(InvalidAmountOperation(new_available.err), self)
                   ELSE Returned(OkResult,
                                 [self EXCEPT
                                    !.amount_held = new_held.store,
                                    !.amount_available = new_available.store,
                                    !.is_locked = TRUE,
                                    !.tx[tx_id].is_disputed = FALSE])
         ELSE Returned(AccountError("InvalidWithdrawalDispute", tx_id), self)
    ELSE Returned(AccountError("TxUnknown", tx_id), self)

\* chargeback without the test of the record's disputed flag.
chargeback_unflagged(self, tx_id) ==
    IF self.is_locked
    THEN Returned(AccountError("AccountLocked", tx_id), self)
    ELSE IF tx_id \in DOMAIN self.tx
    THEN LET tx == self.tx[tx_id] IN
         IF tx.typ = "Deposit"
         THEN LET new_held == Amount_sub(self.amount_held, tx.amount) IN
              IF ~new_held.ok
              THEN Returned(InvalidAmountOperation(new_held.err), self)
              ELSE Returned(OkResult,
                            [self EXCEPT
                               !.amount_held = new_held.store,
                               !.is_locked = TRUE,
                               !.tx[tx_id].is_disputed = FALSE])
         ELSE Returned(AccountError("InvalidWithdrawalDispute", tx_id), self)
    ELSE Returned(AccountError("TxUnknown", tx_id), self)

\* A chargeback that drops the record of the deposit it reverses.
chargeback_forgets(self, tx_id) ==
    IF self.is_locked
    THEN Returned(AccountError("AccountLocked", tx_id), self)
    ELSE IF tx_id \in DOMAIN self.tx
    THEN LET tx == self.tx[tx_id] IN
         IF ~tx.is_disputed
         THEN Returned(AccountError("TxNotDisputed", tx_id), self)
         ELSE IF tx.typ = "Deposit"
         THEN LET new_held == Amount_sub(self.amount_held, tx.amount) IN
              IF ~new_held.ok
              THEN Returned(InvalidAmountOperation(new_held.err), self)
              ELSE Returned(OkResult,
                            [self EXCEPT
                               !.amount_held = new_held.store,
                               !.is_locked = TRUE,
                               !.tx = [x \in DOMAIN self.tx \ {tx_id} |-> self.tx[x]]])
         ELSE Returned(AccountError("InvalidWithdrawalDispute", tx_id), self)
    ELSE Returned(AccountError("TxUnknown", tx_id), self)

\* A chargeback that leaves the amount in amount_held.
chargeback_keeps_held(self, tx_id) ==
    IF self.is_locked
    THEN Returned(AccountError("AccountLocked", tx_id), self)
    ELSE IF tx_id \in DOMAIN self.tx
    THEN LET tx == self.tx[tx_id] IN
         IF ~tx.is_disputed
         THEN Returned(AccountError("TxNotDisputed", tx_id), self)
         ELSE IF tx.typ = "Deposit"
         THEN Returned(OkResult,
                       [self EXCEPT
                          !.is_locked = TRUE,
                          !.tx[tx_id].is_disputed = FALSE])
         ELSE Returned(AccountError("InvalidWithdrawalDispute", tx_id), self)
    ELSE Returned(AccountError("TxUnknown", tx_id), self)

\* A chargeback that does not lock the account.
chargeback_no_lock(self, tx_id) ==
    IF self.is_locked
    THEN Returned(AccountError("AccountLocked", tx_id), self)
    ELSE IF tx_id \in DOMAIN self.tx
    THEN LET tx == self.tx[tx_id] IN
         IF ~tx.is_disputed
         THEN Returned(AccountError("TxNotDisputed", tx_id), self)
         ELSE IF tx.typ = "Deposit"
         THEN LET new_held == Amount_sub(self.amount_held, tx.amount) IN
              IF ~new_held.ok
              THEN Returned(InvalidAmountOperation(new_held.err), self)
              ELSE Returned(OkResult,
                            [self EXCEPT
                               !.amount_held = new_held.store,
                               !.tx[tx_id].is_disputed = FALSE])
         ELSE Returned(AccountError("InvalidWithdrawalDispute", tx_id), self)
    ELSE Returned(AccountError("TxUnknown", tx_id), self)

\* Account::chargeback
chargeback(self, tx_id) ==
    IF self.is_locked
    THEN Returned(AccountError("AccountLocked", tx_id), self)
    ELSE IF tx_id \in DOMAIN self.tx
    THEN LET tx == self.tx[tx_id] IN
         IF ~tx.is_disputed
         THEN Returned(AccountError("TxNotDisputed", tx_id), self)
         ELSE IF tx.typ = "Deposit"
         THEN LET new_held == Amount_sub(self.amount_held, tx.amount) IN
              IF ~new_held.ok
              THEN Returned(InvalidAmountOperation(new_held.err), self)
              ELSE Returned(OkResult,
                            [self EXCEPT
                               !.amount_held = new_held.store,
                               !.is_locked = TRUE,
                               !.tx[tx_id].is_disputed = FALSE])
         ELSE Returned(AccountError("InvalidWithdrawalDispute", tx_id), self)
    ELSE Returned(AccountError("TxUnknown", tx_id), self)

(***************************************************************************)
(* Ledger (src/engine/ledger.rs)                                           *)
(***************************************************************************)
\* Option<String>
None == <<>>
Some(text) == <<text>>

\* struct Transaction
Transaction(id, account_id, amount, typ) ==
    [id |-> id, account_id |-> account_id, amount |-> amount, typ |-> typ]

\* LedgerError variants
LedgerError(kind, tx_id) == [kind |-> kind, tx |-> tx_id]
\* LedgerError::Amount(#[from] AmountError)
LedgerAmountError(amount_err) == [kind |-> "Amount", cause |-> amount_err]
\* LedgerError::Account(#[from] AccountOperationError)
LedgerAccountError(account_err) == [kind |-> "Account", cause |-> account_err]

\* self.accounts.entry(id).or_insert_with(|| Account::new(id))
EntryOrInsert(accounts, client_id) ==
    IF client_id \in DOMAIN accounts
    THEN accounts
    ELSE MapInsert(accounts, client_id, Account_new(client_id))

LedgerReturned(result, accounts, tx_processed) ==
    [res |-> result, accounts |-> accounts, tx_processed |-> tx_processed]

\* The Deposit and Withdrawal arms with the amount validated before the id
\* is looked up in the processed set.
ProcessValueTx_amount_first(accounts, tx_processed, tx) ==
    IF tx.amount = None
    THEN LedgerReturned(LedgerError("MissingAmount", tx.id), accounts, tx_processed)
    ELSE LET amount == Amount_from_str(tx.amount[1]) IN
         IF ~amount.ok
         THEN LedgerReturned(LedgerAmountError(amount.err), accounts, tx_processed)
         ELSE IF amount.store < Amount_new
         THEN LedgerReturned(LedgerError("NegativeTxAmount", tx.id), accounts, tx_processed)
         ELSE IF tx.id \in tx_processed
         THEN LedgerReturned(LedgerError("DuplicateTxId", tx.id), accounts, tx_processed)
         ELSE LET account == accounts[tx.account_id]
                  r == IF tx.typ = "Deposit"
                       THEN deposit(account, tx.id, amount.store)
                       ELSE withdraw(account, tx.id, amount.store)
                  updated == [accounts EXCEPT ![tx.account_id] = r.acc]
              IN IF r.res.kind # "Ok"
                 THEN LedgerReturned(LedgerAccountError(r.res), updated, tx_processed)
                 ELSE LedgerReturned(OkResult, updated, tx_processed \cup {tx.id})

\* The Deposit and Withdrawal arms without the test of the amount's sign.
ProcessValueTx_no_sign_check(accounts, tx_processed, tx) ==
    IF tx.id \in tx_processed
    THEN LedgerReturned(LedgerError("DuplicateTxId", tx.id), accounts, tx_processed)
    ELSE IF tx.amount = None
    THEN LedgerReturned(LedgerError("MissingAmount", tx.id), accounts, tx_processed)
    ELSE LET amount == Amount_from_str(tx.amount[1]) IN
         IF ~amount.ok
         THEN LedgerReturned(LedgerAmountError(amount.err), accounts, tx_processed)
         ELSE LET account == accounts[tx.account_id]
                  r == IF tx.typ = "Deposit"
                       THEN deposit(account, tx.id, amount.store)
                       ELSE withdraw(account, tx.id, amount.store)
                  updated == [accounts EXCEPT ![tx.account_id] = r.acc]
              IN IF r.res.kind # "Ok"
                 THEN LedgerReturned(LedgerAccountError(r.res), updated, tx_processed)
                 ELSE LedgerReturned(OkResult, updated, tx_processed \cup {tx.id})

\* The Deposit and Withdrawal arms with the id put into the processed set
\* before the Account operation is called.
ProcessValueTx_insert_early(accounts, tx_processed, tx) ==
    IF tx.id \in tx_processed
    THEN LedgerReturned(LedgerError("DuplicateTxId", tx.id), accounts, tx_processed)
    ELSE IF tx.amount = None
    THEN LedgerReturned(LedgerError("MissingAmount", tx.id), accounts, tx_processed)
    ELSE LET amount == Amount_from_str(tx.amount[1]) IN
         IF ~amount.ok
         THEN LedgerReturned(LedgerAmountError(amount.err), accounts, tx_processed)
         ELSE IF amount.store < Amount_new
         THEN LedgerReturned(LedgerError("NegativeTxAmount", tx.id), accounts, tx_processed)
         ELSE LET account == accounts[tx.account_id]
                  r == IF tx.typ = "Deposit"
                       THEN deposit(account, tx.id, amount.store)
                       ELSE withdraw(account, tx.id, amount.store)
                  updated == [accounts EXCEPT ![tx.account_id] = r.acc]
              IN IF r.res.kind # "Ok"
                 THEN LedgerReturned(LedgerAccountError(r.res), updated,
                                     tx_processed \cup {tx.id})
                 ELSE LedgerReturned(OkResult, updated, tx_processed \cup {tx.id})

\* The Deposit and Withdrawal arms with the duplicate test made against the
\* records of the target account instead of the ledger-wide set of ids.
ProcessValueTx_per_account(accounts, tx_processed, tx) ==
    IF tx.id \in DOMAIN accounts[tx.account_id].tx
    THEN LedgerReturned(LedgerError("DuplicateTxId", tx.id), accounts, tx_processed)
    ELSE IF tx.amount = None
    THEN LedgerReturned(LedgerError("MissingAmount", tx.id), accounts, tx_processed)
    ELSE LET amount == Amount_from_str(tx.amount[1]) IN
         IF ~amount.ok
         THEN LedgerReturned(LedgerAmountError(amount.err), accounts, tx_processed)
         ELSE IF amount.store < Amount_new
         THEN LedgerReturned(LedgerError("NegativeTxAmount", tx.id), accounts, tx_processed)
         ELSE LET account == accounts[tx.account_id]
                  r == IF tx.typ = "Deposit"
                       THEN deposit(account, tx.id, amount.store)
                       ELSE withdraw(account, tx.id, amount.store)
                  updated == [accounts EXCEPT ![tx.account_id] = r.acc]
              IN IF r.res.kind # "Ok"
                 THEN LedgerReturned(LedgerAccountError(r.res), updated, tx_processed)
                 ELSE LedgerReturned(OkResult, updated, tx_processed \cup {tx.id})

\* The Deposit and Withdrawal arms without the test of the processed set.
ProcessValueTx_no_duplicate_check(accounts, tx_processed, tx) ==
    IF tx.amount = None
    THEN LedgerReturned(LedgerError("MissingAmount", tx.id), accounts, tx_processed)
    ELSE LET amount == Amount_from_str(tx.amount[1]) IN
         IF ~amount.ok
         THEN LedgerReturned(LedgerAmountError(amount.err), accounts, tx_processed)
         ELSE IF amount.store < Amount_new
         THEN LedgerReturned(LedgerError("NegativeTxAmount", tx.id), accounts, tx_processed)
         ELSE LET account == accounts[tx.account_id]
                  r == IF tx.typ = "Deposit"
                       THEN deposit(account, tx.id, amount.store)
                       ELSE withdraw(account, tx.id, amount.store)
                  updated == [accounts EXCEPT ![tx.account_id] = r.acc]
              IN IF r.res.kind # "Ok"
                 THEN LedgerReturned(LedgerAccountError(r.res), updated, tx_processed)
                 ELSE LedgerReturned(OkResult, updated, tx_processed \cup {tx.id})

\* The Deposit and Withdrawal arms of Ledger::process_transaction, after the
\* account entry was obtained: `accounts` already holds the entry.
ProcessValueTx(accounts, tx_processed, tx) ==
    IF tx.id \in tx_processed
    THEN LedgerReturned(LedgerError("DuplicateTxId", tx.id), accounts, tx_processed)
    ELSE IF tx.amount = None
    THEN LedgerReturned(LedgerError("MissingAmount", tx.id), accounts, tx_processed)
    ELSE LET amount == Amount_from_str(tx.amount[1]) IN
         IF ~amount.ok
         THEN LedgerReturned(LedgerAmountError(amount.err), accounts, tx_processed)
         ELSE IF amount.store < Amount_new
         THEN LedgerReturned(LedgerError("NegativeTxAmount", tx.id), accounts, tx_processed)
         ELSE LET account == accounts[tx.account_id]
                  r == IF tx.typ = "Deposit"
                       THEN deposit(account, tx.id, amount.store)
                       ELSE withdraw(account, tx.id, amount.store)
                  updated == [accounts EXCEPT ![tx.account_id] = r.acc]
              IN IF r.res.kind # "Ok"
                 THEN LedgerReturned(LedgerAccountError(r.res), updated, tx_processed)
                 ELSE LedgerReturned(OkResult, updated, tx_processed \cup {tx.id})

\* A dispute, resolve or chargeback that looks the id up in every account
\* when the client's own account has no record of it.
ProcessDisputeTx_any_account(accounts, tx_processed, tx) ==
    LET holders == {c \in DOMAIN accounts : tx.id \in DOMAIN accounts[c].tx}
        owner == IF tx.id \in DOMAIN accounts[tx.account_id].tx \/ holders = {}
                 THEN tx.account_id
                 ELSE CHOOSE c \in holders : TRUE
        account == accounts[owner]
        r == CASE tx.typ = "Dispute" -> dispute(account, tx.id)
               [] tx.typ = "Resolve" -> resolve(account, tx.id)
               [] tx.typ = "Chargeback" -> chargeback(account, tx.id)
        updated == [accounts EXCEPT ![owner] = r.acc]
    IN IF r.res.kind # "Ok"
       THEN LedgerReturned(LedgerAccountError(r.res), updated, tx_processed)
       ELSE LedgerReturned(OkResult, updated, tx_processed)

\* A chargeback that locks every account of the ledger.
ProcessDisputeTx_locks_all(accounts, tx_processed, tx) ==
    LET account == accounts[tx.account_id]
        r == CASE tx.typ = "Dispute" -> dispute(account, tx.id)
               [] tx.typ = "Resolve" -> resolve(account, tx.id)
               [] tx.typ = "Chargeback" -> chargeback(account, tx.id)
        updated == IF tx.typ = "Chargeback" /\ r.res.kind = "Ok"
                   THEN [c \in DOMAIN accounts |->
                           IF c = tx.account_id THEN r.acc
                           ELSE [accounts[c] EXCEPT !.is_locked = TRUE]]
                   ELSE [accounts EXCEPT ![tx.account_id] = r.acc]
    IN IF r.res.kind # "Ok"
       THEN LedgerReturned(LedgerAccountError(r.res), updated, tx_processed)
       ELSE LedgerReturned(OkResult, updated, tx_processed)

\* The Dispute, Resolve and Chargeback arms of Ledger::process_transaction.
ProcessDisputeTx(accounts, tx_processed, tx) ==
    LET account == accounts[tx.account_id]
        r == CASE tx.typ = "Dispute" -> dispute(account, tx.id)
               [] tx.typ = "Resolve" -> resolve(account, tx.id)
               [] tx.typ = "Chargeback" -> chargeback(account, tx.id)
        updated == [accounts EXCEPT ![tx.account_id] = r.acc]
    IN IF r.res.kind # "Ok"
       THEN LedgerReturned(LedgerAccountError(r.res), updated, tx_processed)
       ELSE LedgerReturned(OkResult, updated, tx_processed)

\* process_transaction with the account looked up under the record's
\* transaction id instead of its client id.
process_transaction_keyed_by_tx(accounts, tx_processed, tx) ==
    LET keyed == [tx EXCEPT !.account_id = tx.id]
        with_entry == EntryOrInsert(accounts, keyed.account_id)
    IN IF tx.typ \in {"Deposit", "Withdrawal"}
       THEN ProcessValueTx(with_entry, tx_processed, keyed)
       ELSE ProcessDisputeTx(with_entry, tx_processed, keyed)

\* process_transaction that keeps a new account entry only when the record
\* is accepted.
process_transaction_entry_on_success(accounts, tx_processed, tx) ==
    LET with_entry == EntryOrInsert(accounts, tx.account_id)
        r == IF tx.typ \in {"Deposit", "Withdrawal"}
             THEN ProcessValueTx(with_entry, tx_processed, tx)
             ELSE ProcessDisputeTx(with_entry, tx_processed, tx)
    IN IF r.res.kind = "Ok"
       THEN r
       ELSE LedgerReturned(r.res, accounts, tx_processed)

\* Ledger::process_transaction: the account entry is looked up or created
\* first, then the record is dispatched on its type.
process_transaction(accounts, tx_processed, tx) ==
    LET with_entry == EntryOrInsert(accounts, tx.account_id) IN
    IF tx.typ \in {"Deposit", "Withdrawal"}
    THEN ProcessValueTx(with_entry, tx_processed, tx)
    ELSE ProcessDisputeTx(with_entry, tx_processed, tx)

\* struct AccountSnapshot
AccountSnapshot(client, available, held, total, locked) ==
    [client |-> client, available |-> available, held |-> held,
     total |-> total, locked |-> locked]

\* account_snapshots with a wrapping addition for the total, so that no
\* account is left out.
account_snapshots_wrapping(accounts) ==
    {AccountSnapshot(NatToText(accounts[c].id),
                     Amount_to_string(accounts[c].amount_available),
                     Amount_to_string(accounts[c].amount_held),
                     Amount_to_string(
                        ((accounts[c].amount_available + accounts[c].amount_held
                            - I64_MIN) % (I64_MAX - I64_MIN + 1)) + I64_MIN),
                     accounts[c].is_locked) :
        c \in DOMAIN accounts}

\* Ledger::account_snapshots: one row per account whose total does not
\* overflow, in no particular order.
account_snapshots(accounts) ==
    {AccountSnapshot(NatToText(accounts[c].id),
                     Amount_to_string(accounts[c].amount_available),
                     Amount_to_string(accounts[c].amount_held),
                     Amount_to_string(
                        Amount_add(accounts[c].amount_available,
                                   accounts[c].amount_held).store),
                     accounts[c].is_locked) :
        c \in {x \in DOMAIN accounts :
                  Amount_add(accounts[x].amount_available,
                             accounts[x].amount_held).ok}}

(***************************************************************************)
(* The state machine: a caller feeds a Ledger one record at a time and     *)
(* takes the Result of each call before it sends the next record.          *)
(***************************************************************************)
VARIABLES
    accounts,       \* Ledger.accounts: client id -> Account
    tx_processed,   \* Ledger.tx_processed: ids of accepted deposits/withdrawals
    accepted,       \* history: ids of the Deposit/Withdrawal records that returned Ok
    lifecycle,      \* history: the <<client, tx id>> pairs whose Deposit returned Ok,
                    \* those whose Withdrawal returned Ok, those whose Dispute
                    \* returned Ok with no Resolve or Chargeback returning Ok
                    \* since, and those whose Chargeback returned Ok
    call,           \* the call on the Ledger that has just returned, if any: its
                    \* record, its Result (for account_snapshots, the rows it
                    \* yielded) and the ledger as it was before it
    amount_case,    \* the Amount operation under way on its own, outside a Ledger
    solo            \* per client, a Ledger that is sent that client's records only

vars == <<accounts, tx_processed, accepted, lifecycle, call, amount_case, solo>>

Clients == 1..MaxClient
TxIds == 1..MaxTx

\* The largest Amount, as a text, and a whole number whose scaling overflows.
MaxAmountText == Amount_to_string(I64_MAX)
UnscalableText == NatToText(I64_MAX)

\* The amount column of the records fed to the ledger.
AmountInputs ==
    { None,
      Some(<<"1">>),
      Some(<<"-", "1">>),
      Some(<<"x">>),
      Some(MaxAmountText),
      Some(UnscalableText) }

NoRecord == [id |-> 0, account_id |-> 0, amount |-> None, typ |-> "None"]

NoLifecycle == [deposited |-> {}, withdrawn |-> {}, open |-> {}, charged |-> {}]

Idle ==
    [pc |-> "idle", tx |-> NoRecord, res |-> OkResult, rows |-> {},
     accounts |-> EmptyMap, tx_processed |-> {}, accepted |-> {},
     lifecycle |-> NoLifecycle]

\* No Amount operation is under way.
NoCase == [op |-> "none", pc |-> "done", text |-> <<>>, a |-> 0, b |-> 0,
           out |-> OkResult]

\* Ledger::new, once per client, and nothing sent yet.
NoSolo ==
    [ledgers |-> [c \in Clients |-> [accounts |-> EmptyMap, tx_processed |-> {}]],
     res |-> OkResult,
     fed |-> 0,
     sent |-> [id \in TxIds |-> {}]]

\* Ledger::new
InitLedger ==
    /\ accounts = EmptyMap
    /\ tx_processed = {}
    /\ accepted = {}
    /\ lifecycle = NoLifecycle
    /\ call = Idle

Init ==
    /\ InitLedger
    /\ amount_case = NoCase
    /\ solo = NoSolo

\* One call of Ledger::process_transaction, on the record
\* Transaction { id, account_id, amount, typ }.  The caller sends a record
\* when it has taken the Result of the call before (call.pc = "idle").
ProcessCall(typ, account_id, id, amount) ==
    LET tx == Transaction(id, account_id, amount, typ)
        key == <<account_id, id>>
    IN
    \E r \in {process_transaction(accounts, tx_processed, tx)} :
    /\ accounts' = r.accounts
    /\ tx_processed' = r.tx_processed
    /\ accepted' = IF typ \in {"Deposit", "Withdrawal"} /\ r.res.kind = "Ok"
                   THEN accepted \cup {id}
                   ELSE accepted
    /\ lifecycle' =
          IF r.res.kind # "Ok" THEN lifecycle
          ELSE CASE typ = "Deposit" ->
                      [lifecycle EXCEPT !.deposited = @ \cup {key}]
                 [] typ = "Withdrawal" ->
                      [lifecycle EXCEPT !.withdrawn = @ \cup {key}]
                 [] typ = "Dispute" ->
                      [lifecycle EXCEPT !.open = @ \cup {key}]
                 [] typ = "Resolve" ->
                      [lifecycle EXCEPT !.open = @ \ {key}]
                 [] typ = "Chargeback" ->
                      [lifecycle EXCEPT !.open = @ \ {key},
                                        !.charged = @ \cup {key}]
    /\ call' = [pc |-> "returned", tx |-> tx, res |-> r.res, rows |-> {},
                accounts |-> accounts, tx_processed |-> tx_processed,
                accepted |-> accepted, lifecycle |-> lifecycle]

Process(typ, account_id, id, amount) ==
    /\ ProcessCall(typ, account_id, id, amount)
    /\ UNCHANGED <<amount_case, solo>>

Deposit ==
    /\ call.pc = "idle"
    /\ \E c \in Clients, id \in TxIds, a \in AmountInputs :
          Process("Deposit", c, id, a)

Withdrawal ==
    /\ call.pc = "idle"
    /\ \E c \in Clients, id \in TxIds, a \in AmountInputs :
          Process("Withdrawal", c, id, a)

\* The amount of a dispute, resolve or chargeback record is ignored.
Dispute ==
    /\ call.pc = "idle"
    /\ \E c \in Clients, id \in TxIds :
          Process("Dispute", c, id, None)

Resolve ==
    /\ call.pc = "idle"
    /\ \E c \in Clients, id \in TxIds :
          Process("Resolve", c, id, None)

Chargeback ==
    /\ call.pc = "idle"
    /\ \E c \in Clients, id \in TxIds :
          Process("Chargeback", c, id, None)

\* One call of Ledger::account_snapshots (&self: the ledger is only read),
\* with the iterator it returns drained by the caller.
Snapshots ==
    /\ call.pc = "idle"
    /\ call' = [pc |-> "snapshots", tx |-> NoRecord, res |-> OkResult,
                rows |-> account_snapshots(accounts),
                accounts |-> accounts, tx_processed |-> tx_processed,
                accepted |-> accepted, lifecycle |-> lifecycle]
    /\ UNCHANGED <<accounts, tx_processed, accepted, lifecycle, amount_case, solo>>

\* The caller has taken the Result; the ledger is ready for the next record.
Return ==
    /\ call.pc # "idle"
    /\ call' = Idle
    /\ UNCHANGED <<accounts, tx_processed, accepted, lifecycle, amount_case, solo>>

Next ==
    Deposit \/ Withdrawal \/ Dispute \/ Resolve \/ Chargeback \/ Snapshots \/ Return

Spec == Init /\ [][Next]_vars

(***************************************************************************)
(* The Amount on its own: one operation of src/engine/amount.rs applied to *)
(* inputs drawn from bounded sets.                                         *)
(***************************************************************************)
Alphabet == {"0", "1", "-", "+", ".", " ", "x"}

ShortTexts == UNION {[1..n -> Alphabet] : n \in 0..MaxTextLen}

\* The text of a value of any size in the format of the report:
\* [-]<integer>.<4-digit-fraction>.
DecimalText(v) ==
    LET abs == IF v < 0 THEN -v ELSE v
        body == NatToText(abs \div SCALE) \o <<".">>
                  \o ZeroPad(NatToText(abs % SCALE), FRAC_DIGITS)
    IN IF v < 0 THEN <<"-">> \o body ELSE body

\* Texts at the ends of the range, with and without a fractional part, and
\* texts with more than four fractional digits.
BoundaryTexts ==
    { DecimalText(I64_MAX), DecimalText(I64_MAX + 1),
      DecimalText(I64_MIN), DecimalText(I64_MIN - 1),
      NatToText(I64_MAX), NatToText(I64_MAX + 1),
      IntToText(I64_MIN), IntToText(I64_MIN - 1),
      NatToText(I64_MAX \div SCALE), NatToText(I64_MAX \div SCALE + 1),
      IntToText(-(I64_MAX \div SCALE)), IntToText(-(I64_MAX \div SCALE) - 1),
      NatToText(I64_MAX \div SCALE + 1) \o <<".", "0">>,
      IntToText(-(I64_MAX \div SCALE) - 1) \o <<".">>,
      <<"1", ".", "2", "3", "4", "5", "6">>,
      <<"0", ".", "0", "0", "0", "1", "9">>,
      <<"-", ".", "0", "0", "0", "1", "9">>,
      <<"-", "0", ".", "9", "9", "9", "9", "9">>,
      <<"+", "0", "5", ".", "0", "5">>,
      <<"1", "2", ".", "1", "2", "x">> }

\* Each whitespace character before, after, alone and inside a number.
WhitespaceTexts ==
    UNION {{<<c, "1">>, <<"1", c>>, <<c, "-", "1", ".", "5", c>>, <<c>>, <<c, c>>,
            <<"1", c, "1">>} : c \in WhiteSpace}

TextInputs == ShortTexts \cup BoundaryTexts \cup WhitespaceTexts

\* Values around the ends and the middle of the range.
Values ==
    {v \in I64_MIN..(I64_MIN + ValueSpan) : TRUE}
      \cup ((-SCALE - ValueSpan)..(-SCALE + ValueSpan))
      \cup ((-ValueSpan)..ValueSpan)
      \cup ((SCALE - ValueSpan)..(SCALE + ValueSpan))
      \cup ((I64_MAX - ValueSpan)..I64_MAX)

Case(op, text, a, b) ==
    [op |-> op, pc |-> "input", text |-> text, a |-> a, b |-> b, out |-> OkResult]

AmountCases ==
    {Case("from_str", t, 0, 0) : t \in TextInputs}
      \cup {Case("to_string", <<>>, v, 0) : v \in Values}
      \cup {Case(op, <<>>, ab[1], ab[2]) :
              op \in {"add", "sub"}, ab \in Values \X Values}

AmountInit ==
    /\ InitLedger
    /\ solo = NoSolo
    /\ amount_case \in AmountCases

\* Amount::from_str, on an input text or on the text to_string produced.
FromStr ==
    /\ \/ amount_case.op = "from_str" /\ amount_case.pc = "input"
       \/ amount_case.op = "to_string" /\ amount_case.pc = "formatted"
    /\ amount_case' = [amount_case EXCEPT
                          !.pc = "done",
                          !.out = Amount_from_str(amount_case.text)]
    /\ UNCHANGED <<accounts, tx_processed, accepted, lifecycle, call, solo>>

\* Amount::to_string (impl Display).
DisplayFmt ==
    /\ amount_case.op = "to_string"
    /\ amount_case.pc = "input"
    /\ \E outcome \in DisplayOutcomes(amount_case.a) :
          amount_case' =
             IF outcome = "panic"
             THEN [amount_case EXCEPT !.pc = "panicked"]
             ELSE [amount_case EXCEPT
                      !.pc = "formatted",
                      !.text = Amount_to_string(amount_case.a)]
    /\ UNCHANGED <<accounts, tx_processed, accepted, lifecycle, call, solo>>

\* Amount::add
Add ==
    /\ amount_case.op = "add"
    /\ amount_case.pc = "input"
    /\ amount_case' = [amount_case EXCEPT
                          !.pc = "done",
                          !.out = Amount_add(amount_case.a, amount_case.b)]
    /\ UNCHANGED <<accounts, tx_processed, accepted, lifecycle, call, solo>>

\* Amount::sub
Sub ==
    /\ amount_case.op = "sub"
    /\ amount_case.pc = "input"
    /\ amount_case' = [amount_case EXCEPT
                          !.pc = "done",
                          !.out = Amount_sub(amount_case.a, amount_case.b)]
    /\ UNCHANGED <<accounts, tx_processed, accepted, lifecycle, call, solo>>

AmountNext == FromStr \/ DisplayFmt \/ Add \/ Sub

AmountSpec == AmountInit /\ [][AmountNext]_vars

(***************************************************************************)
(* Two ways of feeding the records of the clients: all of them, in any     *)
(* interleaving, to one Ledger (the variables of the ledger), and the      *)
(* records of each client, in the same order, to a Ledger of its own       *)
(* (solo.ledgers).  solo.sent records which clients sent a Deposit or      *)
(* Withdrawal under each transaction id.                                   *)
(***************************************************************************)
TxTypes == {"Deposit", "Withdrawal", "Dispute", "Resolve", "Chargeback"}

FeedAmounts == {None, Some(<<"1">>)}

\* The two clients whose record streams are interleaved.
StreamClients == {c \in Clients : c <= 2}

SoloCall(typ, account_id, id, amount) ==
    LET tx == Transaction(id, account_id, amount, typ)
        own == solo.ledgers[account_id]
    IN \E r \in {process_transaction(own.accounts, own.tx_processed, tx)} :
       solo' = [ledgers |-> [solo.ledgers EXCEPT ![account_id] =
                               [accounts |-> r.accounts,
                                tx_processed |-> r.tx_processed]],
                res |-> r.res,
                fed |-> solo.fed + 1,
                sent |-> IF typ \in {"Deposit", "Withdrawal"}
                         THEN [solo.sent EXCEPT ![id] = @ \cup {account_id}]
                         ELSE solo.sent]

\* The next record of some client arrives and is processed.
Feed ==
    /\ call.pc = "idle"
    /\ solo.fed < MaxFeed
    /\ \E typ \in TxTypes, account_id \in StreamClients, id \in TxIds,
          amount \in FeedAmounts :
          /\ ProcessCall(typ, account_id, id, amount)
          /\ SoloCall(typ, account_id, id, amount)
    /\ UNCHANGED amount_case

FeedNext == Feed \/ Return

FeedSpec == Init /\ [][FeedNext]_vars

(***************************************************************************)
(* Vocabulary of the properties.  In a state where a call has returned,    *)
(* `call` holds the ledger before the call and the variables hold it       *)
(* after the call.                                                         *)
(***************************************************************************)
HasReturned == call.pc = "returned"
Target == call.tx.account_id
IsValueTx == call.tx.typ \in {"Deposit", "Withdrawal"}
Accepted == call.res.kind = "Ok"

\* The account of client c in `accs`, a fresh one if the map has no entry.
AccountOf(accs, c) == IF c \in DOMAIN accs THEN accs[c] ELSE Account_new(c)

\* The account the operation ran on, before and after it.
PreAccount == AccountOf(call.accounts, Target)
PostAccount == accounts[Target]

\* The call failed in the Account operation with the given variant.
AccountFailed(kind) ==
    /\ call.res.kind = "Account"
    /\ call.res.cause.kind = kind
    /\ call.res.cause.tx = call.tx.id

\* The call failed in the arithmetic of the Account operation.
AccountArithmeticFailed ==
    /\ call.res.kind = "Account"
    /\ call.res.cause.kind = "InvalidAmountOperation"

\* The Amount a Deposit/Withdrawal call handed to the Account.
PassedAmount == Amount_from_str(call.tx.amount[1]).store

\* The call reached the Account operation.
ReachedAccount == call.res.kind \in {"Ok", "Account"}

\* Every Amount the texts of AmountInputs parse to, of either sign.
ParsedAmounts ==
    {Amount_from_str(a[1]).store :
        a \in {x \in AmountInputs : x # None /\ Amount_from_str(x[1]).ok}}

(***************************************************************************)
(* C1.  After any sequence of process_transaction calls no account's       *)
(* amount_available is negative.  The code does not keep this: a dispute   *)
(* of a deposit whose funds were withdrawn drives available below zero.    *)
(***************************************************************************)
C1_AvailableNeverNegative ==
    \A c \in DOMAIN accounts : accounts[c].amount_available >= Amount_new

(***************************************************************************)
(* C2.  No account's amount_held is ever negative, and held changes only   *)
(* in an accepted call on that account, by the amount of one recorded      *)
(* deposit: added by a dispute, removed by a resolve or a chargeback.      *)
(***************************************************************************)
C2_HeldNeverNegative ==
    /\ \A c \in DOMAIN accounts : accounts[c].amount_held >= Amount_new
    /\ HasReturned =>
         \A c \in DOMAIN accounts :
            LET pre == AccountOf(call.accounts, c)
                post == accounts[c]
            IN post.amount_held # pre.amount_held =>
                 /\ c = Target
                 /\ Accepted
                 /\ call.tx.id \in DOMAIN pre.tx
                 /\ pre.tx[call.tx.id].typ = "Deposit"
                 /\ \/ /\ call.tx.typ = "Dispute"
                       /\ post.amount_held = pre.amount_held + pre.tx[call.tx.id].amount
                    \/ /\ call.tx.typ \in {"Resolve", "Chargeback"}
                       /\ post.amount_held = pre.amount_held - pre.tx[call.tx.id].amount

\* A chargeback took the amount of a disputed deposit out of held while
\* another deposit stays held.
C2_Witness ==
    /\ HasReturned
    /\ call.tx.typ = "Chargeback"
    /\ Accepted
    /\ PostAccount.amount_held > 0
    /\ PostAccount.amount_held < PreAccount.amount_held

(***************************************************************************)
(* C3.  Lock stickiness: on a locked account every operation, for any tx   *)
(* id (with or without a record, disputed or not) and any amount, fails    *)
(* with AccountLocked(tx_id) and leaves the account as it was.  The         *)
(* accounts are examined between calls: a ledger that a call leaves        *)
(* behind is the ledger of the idle state that follows the call.           *)
(***************************************************************************)
C3_LockedRejectsAll ==
    call.pc = "idle" =>
    \A c \in DOMAIN accounts :
        LET acc == accounts[c] IN
        acc.is_locked =>
            \A id \in TxIds :
                LET locked == Returned(AccountError("AccountLocked", id), acc) IN
                /\ \A a \in ParsedAmounts :
                      /\ deposit(acc, id, a) = locked
                      /\ withdraw(acc, id, a) = locked
                /\ dispute(acc, id) = locked
                /\ resolve(acc, id) = locked
                /\ chargeback(acc, id) = locked

\* A deposit sent to a locked account has come back AccountLocked, and the
\* account holds a record, so that the lock check had to come before the
\* look-up of the id.
C3_Witness ==
    /\ HasReturned
    /\ PreAccount.is_locked
    /\ DOMAIN PreAccount.tx # {}
    /\ call.tx.typ = "Deposit"
    /\ AccountFailed("AccountLocked")
    /\ PostAccount = PreAccount

(***************************************************************************)
(* C4.  Atomicity on failure: an Account operation that returns an error   *)
(* leaves the account (available, held, is_locked and every record) as it  *)
(* was before the call, also when the error is an overflow raised after    *)
(* the first of the two balance computations of dispute or resolve.  The   *)
(* first conjunct is about the call that has just returned, the second     *)
(* about every operation the account could be asked for next.              *)
(***************************************************************************)
C4_FailureLeavesAccount ==
    /\ (HasReturned /\ call.res.kind = "Account") => PostAccount = PreAccount
    /\ call.pc = "idle" =>
         \A c \in DOMAIN accounts, id \in TxIds :
            LET acc == accounts[c]
                Atomic(r) == r.res.kind # "Ok" => r.acc = acc
            IN /\ \A a \in ParsedAmounts :
                     /\ Atomic(deposit(acc, id, a))
                     /\ Atomic(withdraw(acc, id, a))
               /\ Atomic(dispute(acc, id))
               /\ Atomic(resolve(acc, id))
               /\ Atomic(chargeback(acc, id))

\* A dispute failed on the overflow of held, after the subtraction from
\* available had succeeded.
C4_Witness ==
    /\ HasReturned
    /\ call.tx.typ = "Dispute"
    /\ AccountArithmeticFailed
    /\ call.res.cause.cause.kind = "Overflow"
    /\ PostAccount = PreAccount
    /\ PreAccount.amount_held > 0

(***************************************************************************)
(* C5.  Global duplicate rejection: once a Deposit or Withdrawal with id t *)
(* was accepted for some client, every later Deposit or Withdrawal with    *)
(* id t, for any client, fails with DuplicateTxId(t) and changes no        *)
(* balance of any account.                                                 *)
(***************************************************************************)
C5_DuplicateRejected ==
    (HasReturned /\ IsValueTx /\ call.tx.id \in call.accepted) =>
        /\ call.res = LedgerError("DuplicateTxId", call.tx.id)
        /\ \A c \in DOMAIN accounts :
              /\ accounts[c].amount_available = AccountOf(call.accounts, c).amount_available
              /\ accounts[c].amount_held = AccountOf(call.accounts, c).amount_held

\* A withdrawal reusing the id of a deposit accepted for another client was
\* rejected as a duplicate.
C5_Witness ==
    /\ HasReturned
    /\ call.tx.typ = "Withdrawal"
    /\ call.tx.id \in call.accepted
    /\ call.tx.id \notin DOMAIN PreAccount.tx
    /\ \E c \in DOMAIN call.accounts :
          /\ c # Target
          /\ call.tx.id \in DOMAIN call.accounts[c].tx
          /\ call.accounts[c].tx[call.tx.id].typ = "Deposit"
    /\ call.res.kind = "DuplicateTxId"

(***************************************************************************)
(* C6.  A Deposit or Withdrawal rejected with DuplicateTxId for a client   *)
(* that had no account leaves the account map without an entry for that    *)
(* client, and the snapshots have no row for it.  The code obtains the     *)
(* entry before it checks the id, so the empty account is there            *)
(* afterwards.                                                             *)
(***************************************************************************)
C6_DuplicateCreatesNoAccount ==
    (/\ HasReturned
     /\ IsValueTx
     /\ call.res.kind = "DuplicateTxId"
     /\ Target \notin DOMAIN call.accounts)
        => /\ Target \notin DOMAIN accounts
           /\ \A row \in account_snapshots(accounts) : row.client # NatToText(Target)

(***************************************************************************)
(* C7.  A record rejected by process_transaction, for any reason, changes  *)
(* nothing: the set of accounts, every account, the processed-id set and   *)
(* hence the snapshots are the same before and after the call.  The code   *)
(* creates the account of a never-seen client before it rejects the        *)
(* record.                                                                 *)
(***************************************************************************)
C7_RejectedChangesNothing ==
    (HasReturned /\ ~Accepted) =>
        /\ accounts = call.accounts
        /\ tx_processed = call.tx_processed
        /\ account_snapshots(accounts) = account_snapshots(call.accounts)

(***************************************************************************)
(* C8.  Active -> Locked only: is_locked turns true only in an accepted    *)
(* chargeback of a deposit of that account that was under dispute, and an  *)
(* account that is locked before a call is locked after it.                *)
(***************************************************************************)
C8_LockOnlyByChargeback ==
    HasReturned =>
        \A c \in DOMAIN accounts :
            LET pre == AccountOf(call.accounts, c)
                post == accounts[c]
            IN /\ pre.is_locked => post.is_locked
               /\ (~pre.is_locked /\ post.is_locked) =>
                     /\ c = Target
                     /\ call.tx.typ = "Chargeback"
                     /\ Accepted
                     /\ call.tx.id \in DOMAIN pre.tx
                     /\ pre.tx[call.tx.id].typ = "Deposit"
                     /\ pre.tx[call.tx.id].is_disputed

\* A chargeback of a disputed deposit has just locked the account.
C8_Witness ==
    /\ HasReturned
    /\ call.tx.typ = "Chargeback"
    /\ Accepted
    /\ ~PreAccount.is_locked
    /\ PreAccount.tx[call.tx.id].is_disputed
    /\ PostAccount.is_locked

(***************************************************************************)
(* C9.  On an unlocked account and an unused tx id, withdraw(tx, amount)   *)
(* fails with WithdrawalLimitExceeded(tx) exactly when available < amount; *)
(* otherwise available decreases by exactly amount, a non-disputed         *)
(* Withdrawal record with that amount is stored under tx, and held,        *)
(* is_locked and the other records are unchanged.                          *)
(***************************************************************************)
C9_WithdrawExact ==
    (/\ HasReturned
     /\ call.tx.typ = "Withdrawal"
     /\ ReachedAccount
     /\ ~PreAccount.is_locked
     /\ call.tx.id \notin DOMAIN PreAccount.tx)
        => IF PreAccount.amount_available < PassedAmount
           THEN /\ AccountFailed("WithdrawalLimitExceeded")
                /\ PostAccount = PreAccount
           ELSE /\ Accepted
                /\ PostAccount =
                     [PreAccount EXCEPT
                        !.amount_available = PreAccount.amount_available - PassedAmount,
                        !.tx = MapInsert(PreAccount.tx, call.tx.id,
                                         AccountTx(PassedAmount, "Withdrawal", FALSE))]

\* A withdrawal of exactly the available funds was accepted.
C9_Witness ==
    /\ HasReturned
    /\ call.tx.typ = "Withdrawal"
    /\ Accepted
    /\ PassedAmount > 0
    /\ PreAccount.amount_available = PassedAmount
    /\ PostAccount.amount_available = 0

(***************************************************************************)
(* C10.  An accepted dispute(tx) of a non-disputed deposit with amount a   *)
(* decreases available by a, increases held by a and sets the record's     *)
(* disputed flag; available + held, is_locked and every other record are   *)
(* unchanged.                                                              *)
(***************************************************************************)
C10_DisputeMovesFunds ==
    (HasReturned /\ call.tx.typ = "Dispute" /\ Accepted) =>
        /\ call.tx.id \in DOMAIN PreAccount.tx
        /\ LET rec == PreAccount.tx[call.tx.id] IN
           /\ rec.typ = "Deposit"
           /\ ~rec.is_disputed
           /\ PostAccount =
                [PreAccount EXCEPT
                   !.amount_available = PreAccount.amount_available - rec.amount,
                   !.amount_held = PreAccount.amount_held + rec.amount,
                   !.tx[call.tx.id].is_disputed = TRUE]
           /\ PostAccount.amount_available + PostAccount.amount_held
                = PreAccount.amount_available + PreAccount.amount_held

\* A dispute moved the amount of one deposit into held in an account that
\* holds another record.
C10_Witness ==
    /\ HasReturned
    /\ call.tx.typ = "Dispute"
    /\ Accepted
    /\ Cardinality(DOMAIN PreAccount.tx) > 1
    /\ PreAccount.tx[call.tx.id].amount > 0
    /\ PostAccount.amount_held = PreAccount.amount_held + PreAccount.tx[call.tx.id].amount
    /\ PostAccount.tx[call.tx.id].is_disputed

(***************************************************************************)
(* C11.  Dispute/resolve round trip: on every reachable unlocked account,  *)
(* a dispute(tx) that succeeds, followed at once by resolve(tx), succeeds  *)
(* and gives back the account as it was before the dispute (available,    *)
(* held, is_locked, every record, the disputed flag false again).  The     *)
(* first conjunct states it of the Account operations, the second of the   *)
(* Resolve record sent to the Ledger right after an accepted Dispute.      *)
(***************************************************************************)
C11_DisputeResolveRoundTrip ==
    /\ call.pc = "idle" =>
         \A c \in DOMAIN accounts, id \in TxIds :
            LET acc == accounts[c]
                disputed == dispute(acc, id)
            IN (~acc.is_locked /\ disputed.res.kind = "Ok") =>
                  resolve(disputed.acc, id) = Returned(OkResult, acc)
    /\ (HasReturned /\ call.tx.typ = "Dispute" /\ Accepted) =>
         LET r == process_transaction(accounts, tx_processed,
                     Transaction(call.tx.id, Target, None, "Resolve"))
         IN /\ r.res = OkResult
            /\ r.accounts = call.accounts
            /\ r.tx_processed = call.tx_processed

\* A resolve was accepted and undid a dispute: disputing the record again
\* gives the account the resolve started from.
C11_Witness ==
    /\ HasReturned
    /\ call.tx.typ = "Resolve"
    /\ Accepted
    /\ PreAccount.tx[call.tx.id].amount > 0
    /\ ~PostAccount.tx[call.tx.id].is_disputed
    /\ dispute(PostAccount, call.tx.id) = Returned(OkResult, PreAccount)

(***************************************************************************)
(* C12.  An accepted chargeback(tx) of a disputed deposit with amount a    *)
(* decreases held by a and leaves available as it was, so that available   *)
(* + held drops by a; it locks the account and clears the record's         *)
(* disputed flag; every other record is unchanged.                         *)
(***************************************************************************)
C12_ChargebackDestroysFunds ==
    (HasReturned /\ call.tx.typ = "Chargeback" /\ Accepted) =>
        /\ call.tx.id \in DOMAIN PreAccount.tx
        /\ LET rec == PreAccount.tx[call.tx.id] IN
           /\ rec.typ = "Deposit"
           /\ rec.is_disputed
           /\ PostAccount =
                [PreAccount EXCEPT
                   !.amount_held = PreAccount.amount_held - rec.amount,
                   !.is_locked = TRUE,
                   !.tx[call.tx.id].is_disputed = FALSE]
           /\ PostAccount.amount_available = PreAccount.amount_available
           /\ PostAccount.amount_available + PostAccount.amount_held
                = PreAccount.amount_available + PreAccount.amount_held - rec.amount

\* A chargeback destroyed the held amount of a deposit while the account
\* had funds available.
C12_Witness ==
    /\ HasReturned
    /\ call.tx.typ = "Chargeback"
    /\ Accepted
    /\ PreAccount.tx[call.tx.id].amount > 0
    /\ PreAccount.amount_available > 0
    /\ PostAccount.amount_available = PreAccount.amount_available
    /\ PostAccount.amount_held = PreAccount.amount_held - PreAccount.tx[call.tx.id].amount
    /\ PostAccount.is_locked

(***************************************************************************)
(* C13.  In every reachable state no Withdrawal record is marked disputed: *)
(* a dispute naming the id of a withdrawal of an unlocked account fails    *)
(* with InvalidWithdrawalDispute and leaves the flag, available, held and  *)
(* the rest of the account as they were.  The records are examined         *)
(* between calls: a ledger that a call leaves behind is the ledger of the  *)
(* idle state that follows the call.                                       *)
(***************************************************************************)
C13_WithdrawalNeverDisputed ==
    /\ call.pc = "idle" =>
          \A c \in DOMAIN accounts : \A id \in DOMAIN accounts[c].tx :
             accounts[c].tx[id].typ = "Withdrawal" => ~accounts[c].tx[id].is_disputed
    /\ (/\ HasReturned
        /\ call.tx.typ = "Dispute"
        /\ ~PreAccount.is_locked
        /\ call.tx.id \in DOMAIN PreAccount.tx
        /\ PreAccount.tx[call.tx.id].typ = "Withdrawal")
          => /\ AccountFailed("InvalidWithdrawalDispute")
             /\ PostAccount = PreAccount

\* A dispute of a withdrawal has been rejected.
C13_Witness ==
    /\ HasReturned
    /\ call.tx.typ = "Dispute"
    /\ ~PreAccount.is_locked
    /\ call.tx.id \in DOMAIN PreAccount.tx
    /\ PreAccount.tx[call.tx.id].typ = "Withdrawal"
    /\ PreAccount.tx[call.tx.id].amount > 0
    /\ AccountFailed("InvalidWithdrawalDispute")
    /\ ~PostAccount.tx[call.tx.id].is_disputed

(***************************************************************************)
(* C14.  resolve and chargeback naming the id of a withdrawal of an        *)
(* unlocked account fail with TxNotDisputed and change nothing, and no     *)
(* resolve or chargeback, on any account and id, ever returns              *)
(* InvalidWithdrawalDispute.                                               *)
(***************************************************************************)
C14_WithdrawalNotDisputed ==
    (HasReturned /\ call.tx.typ \in {"Resolve", "Chargeback"}) =>
        /\ ~AccountFailed("InvalidWithdrawalDispute")
        /\ (/\ ~PreAccount.is_locked
            /\ call.tx.id \in DOMAIN PreAccount.tx
            /\ PreAccount.tx[call.tx.id].typ = "Withdrawal")
              => /\ AccountFailed("TxNotDisputed")
                 /\ PostAccount = PreAccount

\* A chargeback of a withdrawal has been rejected as not disputed.
C14_Witness ==
    /\ HasReturned
    /\ call.tx.typ = "Chargeback"
    /\ ~PreAccount.is_locked
    /\ call.tx.id \in DOMAIN PreAccount.tx
    /\ PreAccount.tx[call.tx.id].typ = "Withdrawal"
    /\ AccountFailed("TxNotDisputed")
    /\ PostAccount = PreAccount

(***************************************************************************)
(* C15.  A Dispute, Resolve or Chargeback record for a client whose own    *)
(* unlocked account has no record of the tx id fails with TxUnknown and    *)
(* changes no balance, whether the id was never used or belongs to an      *)
(* accepted deposit of another client; that other client's deposit is not  *)
(* disputed, resolved or charged back: every account is as it was.         *)
(***************************************************************************)
C15_ForeignIdUnknown ==
    (/\ HasReturned
     /\ call.tx.typ \in {"Dispute", "Resolve", "Chargeback"}
     /\ ~PreAccount.is_locked
     /\ call.tx.id \notin DOMAIN PreAccount.tx)
        => /\ AccountFailed("TxUnknown")
           /\ \A c \in DOMAIN accounts : accounts[c] = AccountOf(call.accounts, c)

\* A dispute named the deposit of another client, and that deposit was
\* left alone.
C15_Witness ==
    /\ HasReturned
    /\ call.tx.typ = "Dispute"
    /\ ~PreAccount.is_locked
    /\ call.tx.id \notin DOMAIN PreAccount.tx
    /\ AccountFailed("TxUnknown")
    /\ \E c \in DOMAIN accounts :
          /\ c # Target
          /\ call.tx.id \in DOMAIN accounts[c].tx
          /\ accounts[c].tx[call.tx.id].typ = "Deposit"
          /\ accounts[c].tx[call.tx.id].amount > 0
          /\ ~accounts[c].is_locked
          /\ ~accounts[c].tx[call.tx.id].is_disputed
          /\ accounts[c].amount_held = 0

(***************************************************************************)
(* C16.  On an unlocked account, deposit(tx, amount) with an unused tx id  *)
(* adds exactly amount to available and stores a non-disputed Deposit      *)
(* record with that amount, leaving held, is_locked and the other records  *)
(* unchanged; if the sum leaves the range of the scaled value it fails     *)
(* with InvalidAmountOperation and the account, its records included, is   *)
(* unchanged; if tx already has a record it fails with TxAlreadyExist.     *)
(* The first conjunct is about the Deposit call that has just returned,    *)
(* the second about every deposit the account could be asked for next.     *)
(***************************************************************************)
C16_DepositExact ==
    /\ (/\ HasReturned
        /\ call.tx.typ = "Deposit"
        /\ ReachedAccount
        /\ ~PreAccount.is_locked
        /\ call.tx.id \notin DOMAIN PreAccount.tx)
          => IF PreAccount.amount_available + PassedAmount > I64_MAX
             THEN /\ AccountArithmeticFailed
                  /\ call.res.cause.cause = [kind |-> "Overflow"]
                  /\ PostAccount = PreAccount
             ELSE /\ Accepted
                  /\ PostAccount =
                       [PreAccount EXCEPT
                          !.amount_available = PreAccount.amount_available + PassedAmount,
                          !.tx = MapInsert(PreAccount.tx, call.tx.id,
                                           AccountTx(PassedAmount, "Deposit", FALSE))]
    /\ call.pc = "idle" =>
         \A c \in DOMAIN accounts, id \in TxIds, a \in ParsedAmounts :
            LET acc == accounts[c]
                r == deposit(acc, id, a)
                sum == acc.amount_available + a
            IN ~acc.is_locked =>
                 IF id \in DOMAIN acc.tx
                 THEN r = Returned(AccountError("TxAlreadyExist", id), acc)
                 ELSE IF sum > I64_MAX \/ sum < I64_MIN
                 THEN /\ r.res.kind = "InvalidAmountOperation"
                      /\ r.acc = acc
                 ELSE r = Returned(OkResult,
                                   [acc EXCEPT
                                      !.amount_available = sum,
                                      !.tx = MapInsert(acc.tx, id,
                                                       AccountTx(a, "Deposit", FALSE))])

\* A deposit was added to an account that had funds available and held and
\* another record.
C16_Witness ==
    /\ HasReturned
    /\ call.tx.typ = "Deposit"
    /\ Accepted
    /\ PassedAmount > 0
    /\ DOMAIN PreAccount.tx # {}
    /\ PostAccount.amount_available = PreAccount.amount_available + PassedAmount
    /\ PostAccount.tx[call.tx.id] = AccountTx(PassedAmount, "Deposit", FALSE)

\* The amount text of the returned Deposit/Withdrawal call parsed to a
\* negative Amount.
ParsedNegative ==
    /\ call.tx.amount # None
    /\ Amount_from_str(call.tx.amount[1]).ok
    /\ Amount_from_str(call.tx.amount[1]).store < 0

(***************************************************************************)
(* C17.  A Deposit or Withdrawal record whose amount was parsed (its id    *)
(* is not in the processed set, the check that precedes the parsing) and   *)
(* is negative is rejected with NegativeTxAmount(tx_id): no balance        *)
(* changes, no record is stored in any account and the id is not added to  *)
(* the processed-id set.                                                   *)
(***************************************************************************)
C17_NegativeAmountRejected ==
    (/\ HasReturned
     /\ IsValueTx
     /\ call.tx.id \notin call.tx_processed
     /\ ParsedNegative)
        => /\ call.res = LedgerError("NegativeTxAmount", call.tx.id)
           /\ \A c \in DOMAIN accounts : accounts[c] = AccountOf(call.accounts, c)
           /\ tx_processed = call.tx_processed
           /\ call.tx.id \notin tx_processed

\* A withdrawal of a negative amount from an account with funds was
\* rejected.
C17_Witness ==
    /\ HasReturned
    /\ call.tx.typ = "Withdrawal"
    /\ ParsedNegative
    /\ PreAccount.amount_available > 0
    /\ call.res = LedgerError("NegativeTxAmount", call.tx.id)
    /\ PostAccount = PreAccount
    /\ call.tx.id \notin tx_processed

(***************************************************************************)
(* C18.  A transaction id enters the processed-id set only when its        *)
(* Deposit or Withdrawal was accepted by the account.  The set holds       *)
(* exactly the accepted ids; a call adds its id when it is an accepted     *)
(* Deposit/Withdrawal and changes the set in no other case; a Deposit or   *)
(* Withdrawal is rejected as DuplicateTxId exactly when its id was         *)
(* accepted before; and after a Deposit/Withdrawal rejected for a missing, *)
(* unparsable or negative amount, insufficient funds, overflow or a        *)
(* locked account the id is still unused, so that no later Deposit or      *)
(* Withdrawal with that id, for any client, is rejected as DuplicateTxId   *)
(* before one was accepted.                                                *)
(***************************************************************************)
C18_ProcessedOnlyWhenAccepted ==
    /\ tx_processed = accepted
    /\ HasReturned =>
         /\ tx_processed = IF IsValueTx /\ Accepted
                           THEN call.tx_processed \cup {call.tx.id}
                           ELSE call.tx_processed
         /\ IsValueTx =>
              (call.res.kind = "DuplicateTxId" <=> call.tx.id \in call.accepted)
         /\ (IsValueTx /\ ~Accepted /\ call.res.kind # "DuplicateTxId") =>
              /\ call.tx.id \notin tx_processed
              /\ call.tx.id \notin accepted

\* A withdrawal was rejected for insufficient funds by an account with a
\* record, and a deposit with the same id for another client is accepted
\* next.
C18_Witness ==
    /\ HasReturned
    /\ call.tx.typ = "Withdrawal"
    /\ AccountFailed("WithdrawalLimitExceeded")
    /\ DOMAIN PreAccount.tx # {}
    /\ call.tx.id \notin tx_processed
    /\ \E c \in Clients :
          /\ c # Target
          /\ process_transaction(accounts, tx_processed,
                Transaction(call.tx.id, c, Some(<<"1">>), "Deposit")).res = OkResult

\* The rows a drained account_snapshots call yielded for client c.
RowsOf(c) == {row \in call.rows : row.client = NatToText(c)}

\* available + held of an account, as an integer of any size.
TotalOf(acc) == acc.amount_available + acc.amount_held

(***************************************************************************)
(* C19.  account_snapshots yields exactly one row for every account whose  *)
(* available + held stays within the scaled value's range, with the texts  *)
(* of available, held and their sum and with locked equal to is_locked,    *)
(* and no row for an account whose sum overflows; it never fails as a      *)
(* whole (no Amount it formats is the one value whose absolute value       *)
(* overflows) and it does not modify the ledger.                           *)
(***************************************************************************)
C19_SnapshotsSkipOverflow ==
    call.pc = "snapshots" =>
        /\ \A c \in DOMAIN accounts :
              LET acc == accounts[c] IN
              IF TotalOf(acc) >= I64_MIN /\ TotalOf(acc) <= I64_MAX
              THEN /\ Cardinality(RowsOf(c)) = 1
                   /\ \A row \in RowsOf(c) :
                         /\ Amount_from_str(row.available) = AmountOk(acc.amount_available)
                         /\ Amount_from_str(row.held) = AmountOk(acc.amount_held)
                         /\ Amount_from_str(row.total) = AmountOk(TotalOf(acc))
                         /\ row.locked = acc.is_locked
                   /\ ~AbsOverflows(TotalOf(acc))
              ELSE RowsOf(c) = {}
        /\ \A row \in call.rows : \E c \in DOMAIN accounts : row \in RowsOf(c)
        /\ \A c \in DOMAIN accounts :
              /\ ~AbsOverflows(accounts[c].amount_available)
              /\ ~AbsOverflows(accounts[c].amount_held)
        /\ accounts = call.accounts
        /\ tx_processed = call.tx_processed

\* The snapshots left out an account whose total overflows and kept the
\* row of another account.
C19_Witness ==
    /\ call.pc = "snapshots"
    /\ \E c \in DOMAIN accounts :
          /\ TotalOf(accounts[c]) > I64_MAX
          /\ RowsOf(c) = {}
    /\ \E c \in DOMAIN accounts :
          /\ TotalOf(accounts[c]) <= I64_MAX
          /\ Cardinality(RowsOf(c)) = 1
    /\ Cardinality(call.rows) = Cardinality(DOMAIN accounts) - 1

(***************************************************************************)
(* C20.  No cross-account effects: a process_transaction call for a record *)
(* of client c, accepted or rejected, leaves every account other than c's  *)
(* as it was (available, held, is_locked and every record), and neither    *)
(* creates nor removes an account of another client.                       *)
(***************************************************************************)
C20_NoCrossAccountEffects ==
    HasReturned =>
        \A c \in (DOMAIN accounts \cup DOMAIN call.accounts) \ {Target} :
            /\ c \in DOMAIN call.accounts
            /\ c \in DOMAIN accounts
            /\ accounts[c] = call.accounts[c]

\* A chargeback locked the account of its client while another client's
\* account, holding a deposit, stayed as it was.
C20_Witness ==
    /\ HasReturned
    /\ call.tx.typ = "Chargeback"
    /\ Accepted
    /\ PostAccount # PreAccount
    /\ \E c \in DOMAIN accounts :
          /\ c # Target
          /\ accounts[c].amount_available > 0
          /\ ~accounts[c].is_locked
          /\ accounts[c] = call.accounts[c]

(***************************************************************************)
(* Vocabulary of the Amount properties.  The parts of a text are read here *)
(* with unbounded integers, apart from Amount_from_str.                    *)
(***************************************************************************)
AmountDone(op) == amount_case.op = op /\ amount_case.pc = "done"

\* The input text without its surrounding whitespace.
Stripped == Trim(amount_case.text)

HasDot(s) == \E i \in 1..Len(s) : s[i] = "."
FirstDot(s) == CHOOSE i \in 1..Len(s) : s[i] = "." /\ \A j \in 1..(i - 1) : s[j] # "."
DotCount(s) == Cardinality({i \in 1..Len(s) : s[i] = "."})
IntPart(s) == IF HasDot(s) THEN SubSeq(s, 1, FirstDot(s) - 1) ELSE s
FracPart(s) == IF HasDot(s) THEN SubSeq(s, FirstDot(s) + 1, Len(s)) ELSE <<>>

IsDigits(ds) == \A i \in 1..Len(ds) : ds[i] \in {"0", "1", "2", "3", "4", "5", "6", "7", "8", "9"}
IsSign(c) == c \in {"+", "-"}
IsBareSign(ip) == Len(ip) = 1 /\ IsSign(ip[1])
Unsigned(ip) == IF ip # <<>> /\ IsSign(Head(ip)) THEN Tail(ip) ELSE ip
IsNegative(ip) == ip # <<>> /\ Head(ip) = "-"

\* An optionally signed, non-empty run of digits.
IsSignedDigits(ip) == Unsigned(ip) # <<>> /\ IsDigits(Unsigned(ip))

RECURSIVE MagnitudeOf(_)
MagnitudeOf(ds) ==
    IF ds = <<>> THEN 0
    ELSE MagnitudeOf(SubSeq(ds, 1, Len(ds) - 1)) * 10 + DigitVal(ds[Len(ds)])

\* The first four fractional digits as a number, missing digits being 0.
F4Of(frac) ==
    LET digit(i) == IF i <= Len(frac) THEN DigitVal(frac[i]) ELSE 0
    IN digit(1) * 1000 + digit(2) * 100 + digit(3) * 10 + digit(4)

\* The integer part alone is within the signed range.
FitsI64(ip) ==
    IF IsNegative(ip)
    THEN MagnitudeOf(Unsigned(ip)) <= I64_MAX + 1
    ELSE MagnitudeOf(Unsigned(ip)) <= I64_MAX

\* s * (I * 10000 + F4) is within the signed range, decided without
\* computing it.
ScaledInRange(s) ==
    LET I == MagnitudeOf(Unsigned(IntPart(s)))
        F4 == F4Of(FracPart(s))
        Q == I64_MAX \div SCALE
        R == I64_MAX % SCALE
    IN \/ I < Q
       \/ I = Q /\ F4 <= (IF IsNegative(IntPart(s)) THEN R + 1 ELSE R)

ScaledValue(s) ==
    LET I == MagnitudeOf(Unsigned(IntPart(s)))
        F4 == F4Of(FracPart(s))
    IN IF IsNegative(IntPart(s)) THEN -(I * SCALE + F4) ELSE I * SCALE + F4

\* [sign]<integer>[.<fraction>]: the integer digits may be missing when a
\* '.' is there.
IsWellFormed(s) ==
    /\ DotCount(s) <= 1
    /\ IsDigits(Unsigned(IntPart(s)))
    /\ IsDigits(FracPart(s))
    /\ HasDot(s) \/ Unsigned(IntPart(s)) # <<>>

ParseFailure(s) == AmountErr([kind |-> "Parse", text |-> s])
OverflowFailure == AmountErr([kind |-> "Overflow"])

(***************************************************************************)
(* C22.  Round trip: for every scaled value a, negative values with a zero *)
(* integer part and the minimum value included, to_string returns a text   *)
(* and from_str of that text succeeds and returns a.                       *)
(***************************************************************************)
C22_RoundTripEveryValue ==
    (amount_case.op = "to_string" /\ amount_case.pc \in {"done", "panicked"}) =>
        /\ amount_case.pc = "done"
        /\ amount_case.out = AmountOk(amount_case.a)

(***************************************************************************)
(* C23.  add and sub never wrap: add returns the exact sum when it is in   *)
(* the signed range and Overflow otherwise, sub returns the exact          *)
(* difference when it is in the range and Underflow otherwise.             *)
(***************************************************************************)
C23_AddSubNeverWrap ==
    /\ AmountDone("add") =>
         LET sum == amount_case.a + amount_case.b IN
         IF I64_MIN <= sum /\ sum <= I64_MAX
         THEN amount_case.out = AmountOk(sum)
         ELSE amount_case.out = OverflowFailure
    /\ AmountDone("sub") =>
         LET difference == amount_case.a - amount_case.b IN
         IF I64_MIN <= difference /\ difference <= I64_MAX
         THEN amount_case.out = AmountOk(difference)
         ELSE amount_case.out = AmountErr([kind |-> "Underflow"])

\* An add of two negative values whose sum is below the range was refused.
C23_Witness ==
    /\ AmountDone("add")
    /\ amount_case.a < 0
    /\ amount_case.b < 0
    /\ amount_case.a + amount_case.b < I64_MIN
    /\ amount_case.out = OverflowFailure

(***************************************************************************)
(* C24 as stated.  For every input text: when the integer part alone is    *)
(* parseable as a signed integer of the width but the scaled value is out  *)
(* of range, from_str reports Overflow; when the digits of the integer     *)
(* part are not parseable as such an integer, it reports Parse.            *)
(***************************************************************************)
C24_OverflowForEveryText ==
    (AmountDone("from_str") /\ IsWellFormed(Stripped)) =>
        /\ (FitsI64(IntPart(Stripped)) /\ ~ScaledInRange(Stripped))
              => amount_case.out = OverflowFailure
        /\ ~FitsI64(IntPart(Stripped))
              => amount_case.out = ParseFailure(Stripped)

(***************************************************************************)
(* C24.  The two range failures of from_str.  For a text without '.': an   *)
(* integer part parseable as a signed integer of the width whose scaling   *)
(* by 10000 is out of range is reported as Overflow, digits not parseable  *)
(* as such an integer as Parse.  For a text with '.': every value out of   *)
(* range is reported as Parse, whether or not the integer part alone is    *)
(* parseable, and Overflow is never reported.                              *)
(***************************************************************************)
C24_OverflowOnlyWithoutFraction ==
    AmountDone("from_str") =>
        /\ HasDot(Stripped) => amount_case.out # OverflowFailure
        /\ IsWellFormed(Stripped) =>
              /\ (/\ ~HasDot(Stripped)
                  /\ FitsI64(IntPart(Stripped))
                  /\ ~ScaledInRange(Stripped))
                    => amount_case.out = OverflowFailure
              /\ (~HasDot(Stripped) /\ ~FitsI64(IntPart(Stripped)))
                    => amount_case.out = ParseFailure(Stripped)
              /\ (HasDot(Stripped) /\ ~ScaledInRange(Stripped))
                    => amount_case.out = ParseFailure(Stripped)

\* A text with a fractional part whose integer part alone is parseable and
\* whose scaled value is out of range was reported as Parse.
C24_Witness ==
    /\ AmountDone("from_str")
    /\ IsWellFormed(Stripped)
    /\ HasDot(Stripped)
    /\ FitsI64(IntPart(Stripped))
    /\ ~ScaledInRange(Stripped)
    /\ amount_case.out = ParseFailure(Stripped)

(***************************************************************************)
(* C25.  For a well-formed text (surrounding whitespace aside) with sign   *)
(* s, integer digits I (none meaning 0) and fractional digits F whose      *)
(* value is in range, from_str returns s * (I * 10000 + F4), F4 being the  *)
(* first 4 digits of F, never rounded, or F padded with zeros on the right *)
(* to 4 digits; also for negative texts whose integer part is empty or 0.  *)
(***************************************************************************)
C25_ScaledValueOfText ==
    (/\ AmountDone("from_str")
     /\ IsWellFormed(Stripped)
     /\ ScaledInRange(Stripped))
        => amount_case.out = AmountOk(ScaledValue(Stripped))

\* A negative text without integer digits and with more than four
\* fractional digits was read without rounding.
C25_Witness ==
    /\ AmountDone("from_str")
    /\ amount_case.text = <<"-", ".", "0", "0", "0", "1", "9">>
    /\ amount_case.out = AmountOk(-1)

(***************************************************************************)
(* C26 as stated.  from_str fails with Parse for every malformed text: an  *)
(* empty or whitespace-only one, one with more than one '.', one whose     *)
(* fractional part has a character that is not a digit, and one whose      *)
(* integer part is neither empty nor an optionally signed, non-empty run   *)
(* of digits.                                                              *)
(***************************************************************************)
C26_ParseForEveryMalformedText ==
    AmountDone("from_str") =>
        ((\/ Stripped = <<>>
          \/ DotCount(Stripped) > 1
          \/ ~IsDigits(FracPart(Stripped))
          \/ ~(IntPart(Stripped) = <<>> \/ IsSignedDigits(IntPart(Stripped))))
            => amount_case.out = ParseFailure(Stripped))

(***************************************************************************)
(* C26.  from_str fails with Parse for an empty or whitespace-only text,   *)
(* a text with more than one '.', a fractional part with a character that  *)
(* is not a digit, and an integer part that is not an optionally signed,   *)
(* non-empty run of digits, with two exceptions when a '.' follows: the    *)
(* empty integer part, read as 0, and the bare sign, read as the sign of   *)
(* the fraction.  A bare sign followed by '.' and digits is accepted.      *)
(***************************************************************************)
C26_ParseForMalformedText ==
    AmountDone("from_str") =>
        /\ (\/ Stripped = <<>>
            \/ DotCount(Stripped) > 1
            \/ ~IsDigits(FracPart(Stripped))
            \/ ~(\/ IsSignedDigits(IntPart(Stripped))
                 \/ /\ HasDot(Stripped)
                    /\ IntPart(Stripped) = <<>> \/ IsBareSign(IntPart(Stripped))))
              => amount_case.out = ParseFailure(Stripped)
        /\ (/\ DotCount(Stripped) = 1
            /\ IsBareSign(IntPart(Stripped))
            /\ IsDigits(FracPart(Stripped)))
              => /\ amount_case.out.ok
                 /\ amount_case.out.store = ScaledValue(Stripped)

\* A '-' directly followed by '.' and a digit was accepted as a negative
\* amount.
C26_Witness ==
    /\ AmountDone("from_str")
    /\ IntPart(Stripped) = <<"-">>
    /\ FracPart(Stripped) = <<"1">>
    /\ amount_case.out = AmountOk(-1000)

(***************************************************************************)
(* Vocabulary of the property of interleavings.                            *)
(***************************************************************************)
\* The shared ledger agrees with the ledgers of the clients on the Result
\* of the returned record and on the state of every account.
AgreesWithSolo ==
    /\ call.res = solo.res
    /\ \A c \in Clients :
          /\ c \in DOMAIN accounts <=> c \in DOMAIN solo.ledgers[c].accounts
          /\ c \in DOMAIN accounts => accounts[c] = solo.ledgers[c].accounts[c]

\* No transaction id was sent in a Deposit or Withdrawal by two clients.
ValueIdsDisjoint == \A id \in TxIds : Cardinality(solo.sent[id]) <= 1

(***************************************************************************)
(* C27 as stated.  Per-client order suffices: whatever the interleaving of *)
(* the records of different clients, every record has the Result it has    *)
(* when the records of its client are processed alone in their order, and  *)
(* every account ends in the same state; so all interleavings agree.       *)
(***************************************************************************)
C27_PerClientOrderSuffices == HasReturned => AgreesWithSolo

(***************************************************************************)
(* C27.  Per-client order suffices when no transaction id is used in a     *)
(* Deposit or Withdrawal by two clients: then, whatever the interleaving,  *)
(* every record has the Result it has when the records of its client are   *)
(* processed alone in their order and every account has the same state.    *)
(***************************************************************************)
C27_PerClientOrderSufficesForDisjointIds ==
    (HasReturned /\ ValueIdsDisjoint) => AgreesWithSolo

\* A dispute of one client was accepted after a deposit of another client
\* had been accepted under another id, and the two ways agree.
C27_Witness ==
    /\ HasReturned
    /\ ValueIdsDisjoint
    /\ call.tx.typ = "Dispute"
    /\ Accepted
    /\ \E c \in DOMAIN accounts :
          /\ c # Target
          /\ accounts[c].amount_available > 0
    /\ AgreesWithSolo

\* The <<client, tx id>> pair the returned call was about.
CallKey == <<call.tx.account_id, call.tx.id>>

(***************************************************************************)
(* C28.  process_transaction reports the failures of a Deposit or          *)
(* Withdrawal record in a fixed precedence: DuplicateTxId, then            *)
(* MissingAmount, then the Amount parse or overflow error, then            *)
(* NegativeTxAmount, and only then the errors of the Account, AccountLocked*)
(* first among them; so a used id sent to a locked account fails with      *)
(* DuplicateTxId, and a missing or negative amount sent to a locked        *)
(* account with MissingAmount or NegativeTxAmount.                         *)
(***************************************************************************)
C28_ErrorPrecedence ==
    (HasReturned /\ IsValueTx) =>
        IF call.tx.id \in call.tx_processed
        THEN call.res = LedgerError("DuplicateTxId", call.tx.id)
        ELSE IF call.tx.amount = None
        THEN call.res = LedgerError("MissingAmount", call.tx.id)
        ELSE IF ~Amount_from_str(call.tx.amount[1]).ok
        THEN call.res = LedgerAmountError(Amount_from_str(call.tx.amount[1]).err)
        ELSE IF PassedAmount < 0
        THEN call.res = LedgerError("NegativeTxAmount", call.tx.id)
        ELSE /\ ReachedAccount
             /\ PreAccount.is_locked => AccountFailed("AccountLocked")

\* A deposit with a used id and no amount, sent to a locked account, was
\* rejected as a duplicate.
C28_Witness ==
    /\ HasReturned
    /\ call.tx.typ = "Deposit"
    /\ PreAccount.is_locked
    /\ call.tx.amount = None
    /\ call.tx.id \in call.tx_processed
    /\ call.res = LedgerError("DuplicateTxId", call.tx.id)

(***************************************************************************)
(* C29.  Ordering of the dispute lifecycle: a resolve or chargeback of tx  *)
(* on an account is accepted only if an earlier dispute of tx on that      *)
(* account was accepted with no accepted resolve (or chargeback) of tx     *)
(* since, and a dispute is accepted only after the deposit tx was accepted *)
(* on that account; a resolve or chargeback of a deposit of an unlocked    *)
(* account that is not under dispute fails with TxNotDisputed and changes  *)
(* nothing.  `lifecycle` is the history of the accepted calls.             *)
(***************************************************************************)
C29_DisputeLifecycleOrder ==
    /\ lifecycle.open \subseteq lifecycle.deposited
    /\ HasReturned =>
         /\ (call.tx.typ \in {"Resolve", "Chargeback"} /\ Accepted) =>
               CallKey \in call.lifecycle.open
         /\ (call.tx.typ = "Dispute" /\ Accepted) =>
               CallKey \in call.lifecycle.deposited
         /\ (/\ call.tx.typ \in {"Resolve", "Chargeback"}
             /\ ~PreAccount.is_locked
             /\ CallKey \in call.lifecycle.deposited
             /\ CallKey \notin call.lifecycle.open)
               => /\ AccountFailed("TxNotDisputed")
                  /\ PostAccount = PreAccount

\* A resolve of a deposit whose dispute had been resolved before was
\* rejected while another deposit of the account was under dispute.
C29_Witness ==
    /\ HasReturned
    /\ call.tx.typ = "Resolve"
    /\ ~PreAccount.is_locked
    /\ CallKey \in call.lifecycle.deposited
    /\ CallKey \notin call.lifecycle.open
    /\ PreAccount.amount_held > 0
    /\ AccountFailed("TxNotDisputed")
    /\ PostAccount = PreAccount

(***************************************************************************)
(* C30.  A deposit's funds are held at most once at a time: a dispute of   *)
(* a deposit that is under dispute fails with TxAlreadyDisputed and leaves *)
(* available and held (and the rest of the account) unchanged, and held    *)
(* grows only in an accepted dispute of a deposit that was not under       *)
(* dispute, so never twice for one deposit without a resolve in between.   *)
(***************************************************************************)
C30_HeldOnceAtATime ==
    HasReturned =>
        /\ (/\ call.tx.typ = "Dispute"
            /\ ~PreAccount.is_locked
            /\ CallKey \in call.lifecycle.open)
              => /\ AccountFailed("TxAlreadyDisputed")
                 /\ PostAccount = PreAccount
        /\ PostAccount.amount_held > PreAccount.amount_held =>
              /\ call.tx.typ = "Dispute"
              /\ Accepted
              /\ CallKey \notin call.lifecycle.open
              /\ PostAccount.amount_held - PreAccount.amount_held
                   = PreAccount.tx[call.tx.id].amount

\* A second dispute of a deposit under dispute was rejected.
C30_Witness ==
    /\ HasReturned
    /\ call.tx.typ = "Dispute"
    /\ ~PreAccount.is_locked
    /\ CallKey \in call.lifecycle.open
    /\ PreAccount.tx[call.tx.id].amount > 0
    /\ AccountFailed("TxAlreadyDisputed")
    /\ PostAccount.amount_held = PreAccount.tx[call.tx.id].amount

(***************************************************************************)
(* Vocabulary of the properties of the records.  Properties of the whole   *)
(* ledger are examined between calls (call.pc = "idle"): the ledger that a *)
(* call leaves behind is the ledger of the state that follows its Return.  *)
(***************************************************************************)
\* The ids of the records of an account of the given kind.
RecordIds(acc, typ) == {id \in DOMAIN acc.tx : acc.tx[id].typ = typ}

\* The ids of the deposits of an account that are under dispute.
DisputedIds(acc) ==
    {id \in DOMAIN acc.tx : acc.tx[id].typ = "Deposit" /\ acc.tx[id].is_disputed}

\* The sum of the amounts of the records of an account under the given ids,
\* as an integer of any size.
RECURSIVE AmountSum(_, _)
AmountSum(acc, ids) ==
    IF ids = {} THEN 0
    ELSE LET id == CHOOSE x \in ids : TRUE
         IN acc.tx[id].amount + AmountSum(acc, ids \ {id})

\* The tx ids that the history holds for client c in a set of pairs.
IdsOf(pairs, c) == {k[2] : k \in {p \in pairs : p[1] = c}}

(***************************************************************************)
(* C31.  Records are append-only: a record stored under a tx id in an      *)
(* account before a call is stored under that id after it, with the same   *)
(* kind and the same amount, whatever the call and its Result; only the    *)
(* disputed flag can differ.  Every accepted deposit and withdrawal of the *)
(* history has its record, of its kind, in the account of its client.      *)
(***************************************************************************)
C31_RecordsAppendOnly ==
    /\ call.pc = "idle" =>
          /\ \A k \in lifecycle.deposited :
                /\ k[1] \in DOMAIN accounts
                /\ k[2] \in RecordIds(accounts[k[1]], "Deposit")
          /\ \A k \in lifecycle.withdrawn :
                /\ k[1] \in DOMAIN accounts
                /\ k[2] \in RecordIds(accounts[k[1]], "Withdrawal")
    /\ HasReturned =>
          \A c \in DOMAIN call.accounts :
             /\ c \in DOMAIN accounts
             /\ \A id \in DOMAIN call.accounts[c].tx :
                   /\ id \in DOMAIN accounts[c].tx
                   /\ accounts[c].tx[id].typ = call.accounts[c].tx[id].typ
                   /\ accounts[c].tx[id].amount = call.accounts[c].tx[id].amount

\* An accepted chargeback left the record of the deposit in place, with its
\* amount, and changed its flag.
C31_Witness ==
    /\ HasReturned
    /\ call.tx.typ = "Chargeback"
    /\ Accepted
    /\ call.tx.id \in DOMAIN PostAccount.tx
    /\ PostAccount.tx[call.tx.id].typ = "Deposit"
    /\ PostAccount.tx[call.tx.id].amount = PreAccount.tx[call.tx.id].amount
    /\ PreAccount.tx[call.tx.id].is_disputed
    /\ ~PostAccount.tx[call.tx.id].is_disputed

(***************************************************************************)
(* C32.  In every reachable state the amount_held of each account is the   *)
(* sum of the amounts of its deposit records whose disputed flag is set,   *)
(* so zero when no deposit is under dispute.                               *)
(***************************************************************************)
C32_HeldIsSumOfDisputed ==
    call.pc = "idle" =>
        \A c \in DOMAIN accounts :
            accounts[c].amount_held
              = AmountSum(accounts[c], DisputedIds(accounts[c]))

\* Two deposits of an account are under dispute and held is their sum.
C32_Witness ==
    \E c \in DOMAIN accounts :
        /\ Cardinality(DisputedIds(accounts[c])) = 2
        /\ \A id \in DisputedIds(accounts[c]) : accounts[c].tx[id].amount > 0
        /\ accounts[c].amount_held = AmountSum(accounts[c], DisputedIds(accounts[c]))

(***************************************************************************)
(* C33.  Conservation of funds: in every reachable state available + held  *)
(* of each account is the sum of its accepted deposits minus the sum of    *)
(* its accepted withdrawals minus the amount of its charged-back deposit,  *)
(* and an accepted dispute or resolve leaves available + held unchanged.   *)
(***************************************************************************)
C33_Conservation ==
    /\ call.pc = "idle" =>
          \A c \in DOMAIN accounts :
             /\ RecordIds(accounts[c], "Deposit") = IdsOf(lifecycle.deposited, c)
             /\ RecordIds(accounts[c], "Withdrawal") = IdsOf(lifecycle.withdrawn, c)
             /\ TotalOf(accounts[c])
                  = AmountSum(accounts[c], IdsOf(lifecycle.deposited, c))
                    - AmountSum(accounts[c], IdsOf(lifecycle.withdrawn, c))
                    - AmountSum(accounts[c], IdsOf(lifecycle.charged, c))
    /\ (HasReturned /\ call.tx.typ \in {"Dispute", "Resolve"})
          => TotalOf(PostAccount) = TotalOf(PreAccount)

\* An account with an accepted deposit, an accepted withdrawal and a
\* charged-back deposit.
C33_Witness ==
    \E c \in DOMAIN accounts :
        /\ IdsOf(lifecycle.withdrawn, c) # {}
        /\ IdsOf(lifecycle.charged, c) # {}
        /\ AmountSum(accounts[c], IdsOf(lifecycle.withdrawn, c)) > 0
        /\ TotalOf(accounts[c])
             = - AmountSum(accounts[c], IdsOf(lifecycle.withdrawn, c))

(***************************************************************************)
(* C34.  In every reachable state the processed-id set is the union of the *)
(* tx ids of the records of all accounts, and the records of two different *)
(* accounts share no tx id.                                                *)
(***************************************************************************)
C34_ProcessedIsStoredIds ==
    call.pc = "idle" =>
        /\ tx_processed = UNION {DOMAIN accounts[c].tx : c \in DOMAIN accounts}
        /\ \A c1 \in DOMAIN accounts, c2 \in DOMAIN accounts :
              c1 # c2 => DOMAIN accounts[c1].tx \cap DOMAIN accounts[c2].tx = {}

\* Two accounts hold a record each, and the processed ids are those two.
C34_Witness ==
    /\ Cardinality(tx_processed) = 2
    /\ \E c1 \in DOMAIN accounts, c2 \in DOMAIN accounts :
          /\ c1 # c2
          /\ DOMAIN accounts[c1].tx # {}
          /\ DOMAIN accounts[c2].tx # {}
          /\ tx_processed = DOMAIN accounts[c1].tx \cup DOMAIN accounts[c2].tx

(***************************************************************************)
(* C35.  process_transaction never returns the Account error               *)
(* TxAlreadyExist: a Deposit or Withdrawal whose id has a record in the    *)
(* target account is rejected with DuplicateTxId.                          *)
(***************************************************************************)
C35_TxAlreadyExistNeverReturned ==
    HasReturned =>
        /\ ~AccountFailed("TxAlreadyExist")
        /\ (IsValueTx /\ call.tx.id \in DOMAIN PreAccount.tx)
              => call.res = LedgerError("DuplicateTxId", call.tx.id)

\* A Deposit with a well-formed amount whose id has a record in the
\* unlocked target account was rejected as a duplicate.
C35_Witness ==
    /\ HasReturned
    /\ call.tx.typ = "Deposit"
    /\ call.tx.amount = Some(<<"1">>)
    /\ ~PreAccount.is_locked
    /\ call.tx.id \in DOMAIN PreAccount.tx
    /\ call.res = LedgerError("DuplicateTxId", call.tx.id)

(***************************************************************************)
(* C36.  At most one chargeback is accepted per account: an accepted       *)
(* chargeback is on an unlocked account and locks it, and a call on a      *)
(* locked account leaves the account as it was, so the deposits under      *)
(* dispute at the chargeback stay disputed, with their amounts in          *)
(* amount_held, in every later state.                                      *)
(***************************************************************************)
C36_OneChargebackPerAccount ==
    /\ call.pc = "idle" =>
          /\ \A c \in Clients : Cardinality(IdsOf(lifecycle.charged, c)) <= 1
          /\ \A k \in lifecycle.open :
                /\ accounts[k[1]].tx[k[2]].is_disputed
                /\ accounts[k[1]].amount_held >= accounts[k[1]].tx[k[2]].amount
    /\ HasReturned =>
          /\ (call.tx.typ = "Chargeback" /\ Accepted) =>
                /\ ~PreAccount.is_locked
                /\ PostAccount.is_locked
                /\ IdsOf(call.lifecycle.charged, Target) = {}
          /\ PreAccount.is_locked =>
                /\ PostAccount = PreAccount
                /\ lifecycle = call.lifecycle

\* A resolve of a deposit still under dispute was rejected on an account
\* locked by the chargeback of another deposit, and the amount stays held.
C36_Witness ==
    /\ HasReturned
    /\ call.tx.typ = "Resolve"
    /\ PreAccount.is_locked
    /\ IdsOf(lifecycle.charged, Target) # {}
    /\ CallKey \in lifecycle.open
    /\ AccountFailed("AccountLocked")
    /\ PostAccount.tx[call.tx.id].is_disputed
    /\ PostAccount.amount_held = PostAccount.tx[call.tx.id].amount
    /\ PostAccount.amount_held > 0

(***************************************************************************)
(* C37.  After every process_transaction call, whatever the record and the *)
(* Result, the ledger holds an account for the record's client; a rejected *)
(* record of a client without an account leaves a new account with zero    *)
(* available, zero held, unlocked and without records, and                 *)
(* account_snapshots yields the row of such an account.                    *)
(***************************************************************************)
C37_AccountForEveryRecord ==
    /\ HasReturned =>
          /\ Target \in DOMAIN accounts
          /\ (Target \notin DOMAIN call.accounts /\ ~Accepted)
                => accounts[Target] = Account_new(Target)
    /\ call.pc = "snapshots" =>
          \A c \in DOMAIN accounts :
              accounts[c] = Account_new(c) =>
                 RowsOf(c) = {AccountSnapshot(NatToText(c),
                                              <<"0", ".", "0", "0", "0", "0">>,
                                              <<"0", ".", "0", "0", "0", "0">>,
                                              <<"0", ".", "0", "0", "0", "0">>,
                                              FALSE)}

\* A Dispute of an unknown id for a client without an account was rejected
\* and left a new, empty account.
C37_Witness ==
    /\ HasReturned
    /\ call.tx.typ = "Dispute"
    /\ Target \notin DOMAIN call.accounts
    /\ AccountFailed("TxUnknown")
    /\ accounts[Target] = Account_new(Target)

====
